---- MODULE Spec2Model ----
(***************************************************************************)
(* Transaction analytics of src/transactions.py: calculate_stats,          *)
(* detect_recurring_transactions and detect_anomalies, applied to a batch  *)
(* of transaction records, and the service around them: the budget store,  *)
(* the report history and the routes that read and write them.             *)
(*                                                                         *)
(* Money is counted in cents (an amount of 100.00 is 10000).  A Python str *)
(* is a sequence of one-character strings, so that slicing, stripping,     *)
(* lower-casing and ordering are computed and not assumed.                 *)
(***************************************************************************)
EXTENDS Integers, Sequences, FiniteSets, TLC

VARIABLES transactions, call, stats, recurring, anomalies,
          request, reply, user_budgets, ai_reports, saves,
          insight, db, plaid_items, API_KEY, SIMULATION_MODE, pending, fetch, faq, selection

vars == <<transactions, call, stats, recurring, anomalies,
          request, reply, user_budgets, ai_reports, saves,
          insight, db, plaid_items, API_KEY, SIMULATION_MODE, pending, fetch, faq, selection>>

(***************************************************************************)
(* Bounds on the batches drawn by Init                                     *)
(***************************************************************************)
MaxLenAnom == 3

MaxLenRecur == 4

MaxLenSub == 3

MaxLenMal == 3

MaxLenKey == 3

MaxLenCat == 2

MaxLenBreak == 3

MaxLenTail == 2

MaxSaves == 2

MaxLenResolver == 2

MaxLenService == 2

MaxReports == 2

MaxLenBackend == 2

MaxLenAuto == 1

MaxPage == 2

MaxTotal == 22

MaxLenFaq == 3

(***************************************************************************)
(* Python str                                                              *)
(***************************************************************************)
Abs(x) == IF x < 0 THEN -x ELSE x

SetMax(S) == CHOOSE x \in S : \A y \in S : y <= x

UpperSeq == <<"A", "B", "C", "D", "E", "F", "G", "H", "I", "J", "K", "L", "M", "N", "O", "P", "Q", "R", "S", "T", "U", "V", "W", "X", "Y", "Z">>

LowerSeq == <<"a", "b", "c", "d", "e", "f", "g", "h", "i", "j", "k", "l", "m", "n", "o", "p", "q", "r", "s", "t", "u", "v", "w", "x", "y", "z">>

DigitSeq == <<"0", "1", "2", "3", "4", "5", "6", "7", "8", "9">>

UpperLetters == {UpperSeq[i] : i \in 1..26}

LowerLetters == {LowerSeq[i] : i \in 1..26}

Digits == {DigitSeq[i] : i \in 1..10}

Whitespace == {" "}

IndexIn(seq, c) == CHOOSE i \in 1..Len(seq) : seq[i] = c

\* code points, for the ordering of str values
Ord(c) ==
    CASE c \in UpperLetters -> 64 + IndexIn(UpperSeq, c)
      [] c \in LowerLetters -> 96 + IndexIn(LowerSeq, c)
      [] c \in Digits       -> 47 + IndexIn(DigitSeq, c)
      [] c = " " -> 32
      [] c = "#" -> 35
      [] c = "*" -> 42
      [] c = "-" -> 45
      [] c = "_" -> 95

LowerChar(c) == IF c \in UpperLetters THEN LowerSeq[IndexIn(UpperSeq, c)] ELSE c

UpperChar(c) == IF c \in LowerLetters THEN UpperSeq[IndexIn(LowerSeq, c)] ELSE c

\* str.lower()
str_lower(s) == [i \in 1..Len(s) |-> LowerChar(s[i])]

\* str.strip(): removes the leading and the trailing run of whitespace
str_strip(s) ==
    LET keep == {i \in 1..Len(s) : s[i] \notin Whitespace}
    IN  IF keep = {} THEN <<>>
        ELSE SubSeq(s, CHOOSE i \in keep : \A j \in keep : i <= j, SetMax(keep))

\* str.replace("_", " ")
str_replace_underscore(s) == [i \in 1..Len(s) |-> IF s[i] = "_" THEN " " ELSE s[i]]

\* str.title(): a letter that follows a non-letter is upper-cased, every other letter lower-cased
str_title(s) ==
    [i \in 1..Len(s) |->
        IF i = 1 \/ s[i - 1] \notin (LowerLetters \cup UpperLetters)
        THEN UpperChar(s[i]) ELSE LowerChar(s[i])]

\* s[:n]
str_prefix(s, n) == SubSeq(s, 1, IF Len(s) < n THEN Len(s) ELSE n)

\* s < t in Python's (code point, lexicographic) order
str_less(s, t) ==
    \E k \in 0..Len(s) :
        /\ k <= Len(t)
        /\ \A i \in 1..k : s[i] = t[i]
        /\ \/ (k = Len(s) /\ k < Len(t))
           \/ (k < Len(s) /\ k < Len(t) /\ Ord(s[k + 1]) < Ord(t[k + 1]))

\* sorted(S) for a set of str
RECURSIVE sorted_strs(_)
sorted_strs(S) ==
    IF S = {} THEN <<>>
    ELSE LET m == CHOOSE x \in S : \A y \in S \ {x} : str_less(x, y)
         IN  <<m>> \o sorted_strs(S \ {m})

\* re_sub_trailing for the pattern r'\d+$': drops the trailing run of digits only
re_sub_trailing_digits(s) ==
    LET keep == {i \in 1..Len(s) : s[i] \notin Digits}
    IN  IF keep = {} THEN <<>> ELSE SubSeq(s, 1, SetMax(keep))

\* re.sub(r'[\s\d#*]+$', '', s): drops the trailing run of whitespace, digits, '#' and '*'
re_sub_trailing(s) ==
    LET keep == {i \in 1..Len(s) : s[i] \notin (Whitespace \cup Digits \cup {"#", "*"})}
    IN  IF keep = {} THEN <<>> ELSE SubSeq(s, 1, SetMax(keep))

(***************************************************************************)
(* Python numbers                                                          *)
(***************************************************************************)
\* floor(num / den) for den > 0
FloorDiv(num, den) == IF num >= 0 THEN num \div den ELSE -((-num + den - 1) \div den)

\* round(): the integer nearest to num/den (den > 0).  Between two candidates the
\* nearer one wins.  At an exact decimal tie Python rounds the double it was given,
\* whose representation error lies on one side or the other of the tie: the
\* side is the input up.
py_round(num, den, up) ==
    LET q   == FloorDiv(num, den)
        rem == num - q * den
    IN  IF 2 * rem < den THEN q
        ELSE IF 2 * rem > den THEN q + 1
        ELSE IF up THEN q + 1 ELSE q

\* round(x, 2) of x = num/den cents, in cents
round2(num, den, up) == py_round(num, den, up)

\* round(x, 1) of x = num/den, in tenths
round1(num, den, up) == py_round(10 * num, den, up)

RECURSIVE SeqSum(_)
SeqSum(s) == IF s = <<>> THEN 0 ELSE s[1] + SeqSum(Tail(s))

RECURSIVE Concat(_)
Concat(ss) == IF ss = <<>> THEN <<>> ELSE ss[1] \o Concat(Tail(ss))

\* the indices of 1..n in S, ascending
RECURSIVE IdxSeq(_, _)
IdxSeq(n, S) ==
    IF n = 0 THEN <<>>
    ELSE IF n \in S THEN Append(IdxSeq(n - 1, S), n) ELSE IdxSeq(n - 1, S)

\* sort_reverse without reverse=True: ascending order of key, equal keys in their
\* original order
RECURSIVE sort_ascending(_, _)
sort_ascending(keys, n) ==
    IF n = 0 THEN <<>>
    ELSE LET done == sort_ascending(keys, n - 1)
             p    == Cardinality({j \in 1..(n - 1) : keys[done[j]] <= keys[n]})
         IN  SubSeq(done, 1, p) \o <<n>> \o SubSeq(done, p + 1, n - 1)

\* list.sort(key=..., reverse=True): the positions of keys in descending order of
\* key; the sort is stable, so equal keys keep their original order
RECURSIVE sort_reverse(_, _)
sort_reverse(keys, n) ==
    IF n = 0 THEN <<>>
    ELSE LET done == sort_reverse(keys, n - 1)
             p    == Cardinality({j \in 1..(n - 1) : keys[done[j]] >= keys[n]})
         IN  SubSeq(done, 1, p) \o <<n>> \o SubSeq(done, p + 1, n - 1)

(***************************************************************************)
(* Transaction records (dicts): the value of a key that is missing or None *)
(* has kind "none"/"absent"; an amount on which float() raises (None, a    *)
(* non-numeric str) has kind "bad".                                        *)
(***************************************************************************)
Str(s) == [k |-> "str", s |-> s]

NoneStr == [k |-> "none", s |-> <<>>]

AbsentStr == [k |-> "absent", s |-> <<>>]

Num(n) == [k |-> "num", n |-> n]

BadAmount == [k |-> "bad", n |-> 0]

AbsentAmount == [k |-> "absent", n |-> 0]

CatList(l) == [k |-> "list", l |-> l, s |-> <<>>]

CatStr(s) == [k |-> "str", l |-> <<>>, s |-> s]

CatNone == [k |-> "none", l |-> <<>>, s |-> <<>>]

Pfc(primary) == [k |-> "dict", primary |-> primary]

PfcNone == [k |-> "none", primary |-> <<>>]

Other == <<"O", "t", "h", "e", "r">>

Unknown == <<"U", "n", "k", "n", "o", "w", "n">>

\* Python's None where a str is expected
None == "None"

NoneRepr == <<"N", "o", "n", "e">>

\* bool(v) of a str-or-None value
Truthy(v) == v.k = "str" /\ v.s # <<>>

\* float(tx.get("amount", 0)) raises
float_raises(tx) == tx.amount.k = "bad"

\* float_amount with the sign of the amount dropped
float_amount_abs(tx) == IF tx.amount.k = "num" THEN Abs(tx.amount.n) ELSE 0

\* float(tx.get("amount", 0)), in cents, when it does not raise
float_amount(tx) == IF tx.amount.k = "num" THEN tx.amount.n ELSE 0

\* str(tx.get("date", ""))
date_str(tx) ==
    CASE tx.date.k = "str"    -> tx.date.s
      [] tx.date.k = "none"   -> NoneRepr
      [] tx.date.k = "absent" -> <<>>

\* tx.get("merchant_name") or tx.get("name") or dflt
merchant_or(tx, dflt) ==
    IF Truthy(tx.merchant_name) THEN tx.merchant_name.s
    ELSE IF Truthy(tx.name) THEN tx.name.s
    ELSE dflt

(***************************************************************************)
(* detect_anomalies                                                        *)
(***************************************************************************)
\* the category resolver inlined in detect_anomalies
anomalies_category(tx) ==
    LET pfc     == tx.personal_finance_category
        raw_cat == tx.category
    IN  IF pfc.k = "dict" /\ pfc.primary # <<>>
        THEN str_title(str_replace_underscore(pfc.primary))
        ELSE IF raw_cat.k = "list" /\ raw_cat.l # <<>> THEN raw_cat.l[1]
        ELSE IF raw_cat.k = "str" /\ raw_cat.s # <<>> THEN raw_cat.s
        ELSE Other

\* the first loop: positive amounts grouped by category, groups in the order in
\* which their category is first met (dict insertion order); each group is the
\* ascending sequence of the positions of its transactions
cat_groups(txs) ==
    LET pos   == {i \in 1..Len(txs) : float_amount(txs[i]) > 0}
        first == {i \in pos : \A j \in pos : j < i => anomalies_category(txs[j]) # anomalies_category(txs[i])}
        heads == IdxSeq(Len(txs), first)
    IN  [g \in 1..Len(heads) |->
            IdxSeq(Len(txs), {i \in pos : anomalies_category(txs[i]) = anomalies_category(txs[heads[g]])})]

\* the anomaly record of transaction i against its group (sum s over n members)
anomaly_record(txs, i, s, n, up) ==
    LET tx     == txs[i]
        amount == float_amount(tx)
        cat    == anomalies_category(tx)
    IN  [transaction_id |-> tx.transaction_id,
         merchant       |-> merchant_or(tx, Unknown),
         amount         |-> round2(amount, 1, up),
         category       |-> cat,
         date           |-> tx.date,
         category_avg   |-> round2(s, n, up),
         ratio          |-> round1(amount * n, s, up),
         flag           |-> <<round2(amount, 1, up), round1(amount * n, s, up), round2(s, n, up), cat>>]

\* the amount (in cents) is a binary fraction of a dollar: its float is exact
binary_exact(amount) == amount % 25 = 0

\* avg = sum(...) / len(items) can differ from the exact mean s / n: a sum of three
\* or more floats of which one is not exact carries a rounding error (0.7 + 0.7 +
\* 0.7 is 2.0999999999999996)
avg_inexact(txs, items) ==
    Len(items) >= 3 /\ \E p \in 1..Len(items) : ~binary_exact(float_amount(txs[items[p]]))

\* a sum of two or more floats of which one is not exact carries a rounding error
\* (0.1 + 0.2 is 0.30000000000000004)
float_sum_inexact(txs, members) ==
    Len(members) >= 2 /\ \E p \in 1..Len(members) : ~binary_exact(float_amount(txs[members[p]]))

\* a key that orders the float sums: an inexact sum lies just below (low) or just
\* above the exact value
float_key(amount, inexact, low) == 2 * amount + (IF inexact THEN (IF low THEN -1 ELSE 1) ELSE 0)

\* amount > threshold * avg, with avg = s / n and the threshold in tenths; where the
\* exact values are equal, the comparison of the floats holds when avg has been
\* rounded below the mean (low)
exceeds(amount, threshold, s, n, low) ==
    \/ amount * 10 * n > threshold * s
    \/ (low /\ amount * 10 * n = threshold * s)

\* the second loop, for one group: the records of its flagged members
group_anomalies(txs, items, threshold, up, low) ==
    LET s == SeqSum([p \in 1..Len(items) |-> float_amount(txs[items[p]])])
        n == Len(items)
    IN  IF s <= 0 THEN <<>>
        ELSE LET hit == SelectSeq(items, LAMBDA i : exceeds(float_amount(txs[i]), threshold, s, n,
                                                            low /\ avg_inexact(txs, items)))
             IN  [p \in 1..Len(hit) |-> anomaly_record(txs, hit[p], s, n, up)]

\* detect_anomalies without the final sort
detect_anomalies_unsorted(txs, threshold, up, low) ==
    LET groups == cat_groups(txs)
    IN  Concat([g \in 1..Len(groups) |-> group_anomalies(txs, groups[g], threshold, up, low)])

\* detect_anomalies(transactions, threshold) when no float() raises
detect_anomalies(txs, threshold, up, low) ==
    LET groups == cat_groups(txs)
        found  == Concat([g \in 1..Len(groups) |-> group_anomalies(txs, groups[g], threshold, up, low)])
        order  == sort_reverse([p \in 1..Len(found) |-> found[p].ratio], Len(found))
    IN  [p \in 1..Len(found) |-> found[order[p]]]

\* detect_anomalies raises: the first loop converts every amount
detect_anomalies_raises(txs) == \E i \in 1..Len(txs) : float_raises(txs[i])

(***************************************************************************)
(* detect_recurring_transactions                                           *)
(***************************************************************************)
\* the grouping key: the merchant name stripped, lower-cased, without its trailing
\* run of whitespace/digits/#/*, stripped again
merchant_key(tx) == str_strip(re_sub_trailing(str_lower(str_strip(merchant_or(tx, <<>>)))))

\* the first loop: transactions with a non-empty key grouped by key, groups in the
\* order in which their key is first met; each group is the ascending sequence of
\* the positions of its transactions
merchant_txs(txs) ==
    LET keyed == {i \in 1..Len(txs) : merchant_key(txs[i]) # <<>>}
        first == {i \in keyed : \A j \in keyed : j < i => merchant_key(txs[j]) # merchant_key(txs[i])}
        heads == IdxSeq(Len(txs), first)
    IN  [g \in 1..Len(heads) |->
            IdxSeq(Len(txs), {i \in keyed : merchant_key(txs[i]) = merchant_key(txs[heads[g]])})]

\* the set months of a group: the first 7 characters of every date of 7 or more
group_months(txs, items) ==
    {str_prefix(date_str(txs[items[p]]), 7) : p \in {q \in 1..Len(items) : Len(date_str(txs[items[q]])) >= 7}}

\* group_passes without the test on the number of months
group_passes_count_only(txs, items) == Len(items) >= 2

\* a group passes the two filters that precede the conversion of its amounts
group_passes(txs, items) == Len(items) >= 2 /\ Cardinality(group_months(txs, items)) >= 2

\* group_amounts without the filter on the sign
group_amounts_unfiltered(txs, items) == [p \in 1..Len(items) |-> float_amount(txs[items[p]])]

\* the list amounts of a group: its amounts that are > 0, in order
group_amounts(txs, items) ==
    LET pos == SelectSeq(items, LAMBDA i : float_amount(txs[i]) > 0)
    IN  [p \in 1..Len(pos) |-> float_amount(txs[pos[p]])]

\* the category resolver inlined in detect_recurring_transactions
recurring_category(tx) ==
    LET pfc0    == tx.personal_finance_category
        raw_cat == tx.category
    IN  IF pfc0.k = "dict" /\ pfc0.primary # <<>>
        THEN str_title(str_replace_underscore(pfc0.primary))
        ELSE IF raw_cat.k = "list" /\ raw_cat.l # <<>> THEN raw_cat.l[1]
        ELSE IF raw_cat.k = "str" /\ raw_cat.s # <<>> THEN raw_cat.s
        ELSE Other

\* amount_variance < 0.05, where amount_variance = max(|a - avg|) / avg, avg = s / n > 0;
\* where the exact deviation is 5% and an amount is not an exact float, the computed
\* quotient lies just below (low) or just above 0.05 (0.13 / 2.6 for 2.47 and 2.73 is
\* 0.04999999999999996)
variance_below_5pct(amounts, low) ==
    LET s   == SeqSum(amounts)
        n   == Len(amounts)
        dev == 20 * SetMax({Abs(amounts[p] * n - s) : p \in 1..n})
    IN  \/ dev < s
        \/ (dev = s /\ low /\ \E p \in 1..n : ~binary_exact(amounts[p]))

\* the record appended for a group that passed the filters and has a positive amount
recurring_record(txs, items, up, low) ==
    LET amounts == group_amounts(txs, items)
        first   == txs[items[1]]
    IN  [merchant        |-> merchant_or(first, merchant_key(first)),
         count           |-> Len(items),
         months_seen     |-> sorted_strs(group_months(txs, items)),
         avg_amount      |-> round2(SeqSum(amounts), Len(amounts), up),
         total           |-> round2(SeqSum(amounts), 1, up),
         category        |-> recurring_category(first),
         is_subscription |-> variance_below_5pct(amounts, low)]

\* detect_recurring_transactions without the final sort
detect_recurring_unsorted(txs, up, low) ==
    LET groups == merchant_txs(txs)
        kept   == SelectSeq(groups, LAMBDA items : group_passes(txs, items) /\ group_amounts(txs, items) # <<>>)
    IN  [g \in 1..Len(kept) |-> recurring_record(txs, kept[g], up, low)]

\* detect_recurring_transactions(transactions) when no float() raises
detect_recurring_transactions(txs, up, low) ==
    LET groups == merchant_txs(txs)
        kept   == SelectSeq(groups, LAMBDA items : group_passes(txs, items) /\ group_amounts(txs, items) # <<>>)
        found  == [g \in 1..Len(kept) |-> recurring_record(txs, kept[g], up, low)]
        order  == sort_reverse([p \in 1..Len(found) |-> found[p].total], Len(found))
    IN  [p \in 1..Len(found) |-> found[order[p]]]

\* detect_recurring_transactions raises: the amounts of a group are converted only
\* once the group has passed the count and month filters
detect_recurring_raises(txs) ==
    LET groups == merchant_txs(txs)
    IN  \E g \in 1..Len(groups) :
            /\ group_passes(txs, groups[g])
            /\ \E p \in 1..Len(groups[g]) : float_raises(txs[groups[g][p]])

(***************************************************************************)
(* calculate_stats                                                         *)
(***************************************************************************)
TopMerchants == 5

\* stats_category with the legacy list tried before the structured field
stats_category_list_first(tx) ==
    LET pfc     == tx.personal_finance_category
        raw_cat == tx.category
    IN  IF raw_cat.k = "list" /\ raw_cat.l # <<>> THEN raw_cat.l[1]
        ELSE IF pfc.k = "dict" /\ pfc.primary # <<>>
        THEN str_title(str_replace_underscore(pfc.primary))
        ELSE IF (raw_cat.k = "str" /\ raw_cat.s # <<>>) THEN raw_cat.s
        ELSE Other

\* the category resolver inlined in calculate_stats
stats_category(tx) ==
    LET pfc     == tx.personal_finance_category
        raw_cat == tx.category
    IN  IF pfc.k = "dict" /\ pfc.primary # <<>>
        THEN str_title(str_replace_underscore(pfc.primary))
        ELSE IF raw_cat.k = "list" /\ raw_cat.l # <<>> THEN raw_cat.l[1]
        ELSE IF (raw_cat.k = "str" /\ raw_cat.s # <<>>) THEN raw_cat.s
        ELSE Other

\* the positions the loop does not skip: float() raising is caught and the loop
\* continues with the next transaction
stats_parsed(txs) == {i \in 1..Len(txs) : ~float_raises(txs[i])}

\* classify with the income accumulator taking the signed amount
classify_signed_income(acc, amount) ==
    IF amount > 0
    THEN [total_spent |-> acc.total_spent + amount, total_income |-> acc.total_income]
    ELSE [total_spent |-> acc.total_spent, total_income |-> acc.total_income + amount]

\* the sign classification of one amount into the two accumulators
classify(acc, amount) ==
    IF amount > 0
    THEN [total_spent |-> acc.total_spent + amount, total_income |-> acc.total_income]
    ELSE [total_spent |-> acc.total_spent, total_income |-> acc.total_income + Abs(amount)]

\* stats_totals without the else branch: amounts <= 0 are dropped
stats_totals_spent_only(txs, n) ==
    [total_spent  |-> SeqSum([i \in 1..n |-> IF float_amount(txs[i]) > 0 THEN float_amount(txs[i]) ELSE 0]),
     total_income |-> 0]

\* total_spent and total_income after the first n iterations of the loop
RECURSIVE stats_totals(_, _)
stats_totals(txs, n) ==
    IF n = 0 THEN [total_spent |-> 0, total_income |-> 0]
    ELSE IF float_raises(txs[n]) THEN stats_totals(txs, n - 1)
    ELSE classify(stats_totals(txs, n - 1), float_amount(txs[n]))

\* the dict categories: category -> summed signed amount, in insertion order
stats_categories(txs) ==
    LET ok    == stats_parsed(txs)
        first == {i \in ok : \A j \in ok : j < i => stats_category(txs[j]) # stats_category(txs[i])}
        heads == IdxSeq(Len(txs), first)
    IN  [g \in 1..Len(heads) |->
            LET members == IdxSeq(Len(txs), {i \in ok : stats_category(txs[i]) = stats_category(txs[heads[g]])})
            IN  [category |-> stats_category(txs[heads[g]]),
                 amount   |-> SeqSum([p \in 1..Len(members) |-> float_amount(txs[members[p]])]),
                 inexact  |-> float_sum_inexact(txs, members)]]

\* the dict merchants: merchant -> count and summed signed amount, in insertion order
stats_merchants(txs) ==
    LET ok    == stats_parsed(txs)
        first == {i \in ok : \A j \in ok : j < i => merchant_or(txs[j], Unknown) # merchant_or(txs[i], Unknown)}
        heads == IdxSeq(Len(txs), first)
    IN  [g \in 1..Len(heads) |->
            LET members == IdxSeq(Len(txs), {i \in ok : merchant_or(txs[i], Unknown) = merchant_or(txs[heads[g]], Unknown)})
            IN  [name  |-> merchant_or(txs[heads[g]], Unknown),
                 count |-> Len(members),
                 total |-> SeqSum([p \in 1..Len(members) |-> float_amount(txs[members[p]])])]]

\* stats_daily_spending without the test 'if date'
stats_daily_spending_unfiltered(txs) ==
    LET ok    == stats_parsed(txs)
        first == {i \in ok : \A j \in ok : j < i => date_str(txs[j]) # date_str(txs[i])}
        heads == IdxSeq(Len(txs), first)
    IN  [g \in 1..Len(heads) |->
            LET members == IdxSeq(Len(txs), {i \in ok : date_str(txs[i]) = date_str(txs[heads[g]])})
            IN  [date    |-> date_str(txs[heads[g]]),
                 amount  |-> SeqSum([p \in 1..Len(members) |-> float_amount(txs[members[p]])]),
                 inexact |-> float_sum_inexact(txs, members)]]

\* the dict daily_spending: date -> summed signed amount, in insertion order; a
\* transaction whose str(date) is empty is left out
stats_daily_spending(txs) ==
    LET ok    == {i \in stats_parsed(txs) : date_str(txs[i]) # <<>>}
        first == {i \in ok : \A j \in ok : j < i => date_str(txs[j]) # date_str(txs[i])}
        heads == IdxSeq(Len(txs), first)
    IN  [g \in 1..Len(heads) |->
            LET members == IdxSeq(Len(txs), {i \in ok : date_str(txs[i]) = date_str(txs[heads[g]])})
            IN  [date    |-> date_str(txs[heads[g]]),
                 amount  |-> SeqSum([p \in 1..Len(members) |-> float_amount(txs[members[p]])]),
                 inexact |-> float_sum_inexact(txs, members)]]

\* max(daily_spending, key=daily_spending.get): the first key with the greatest value
biggest_expense_day(daily, low) ==
    IF daily = <<>> THEN NoneStr
    ELSE LET key(g) == float_key(daily[g].amount, daily[g].inexact, low)
             best   == {g \in 1..Len(daily) : \A h \in 1..Len(daily) : key(h) <= key(g)}
         IN  Str(daily[CHOOSE g \in best : \A h \in best : g <= h].date)

\* the value None of calculate_stats
NoStats ==
    [none |-> TRUE, total_spent |-> 0, total_income |-> 0, net_cash_flow |-> 0,
     transaction_count |-> 0, avg_daily_spend |-> 0, avg_transaction |-> 0,
     category_breakdown |-> <<>>, top_category |-> NoneStr, top_category_amount |-> 0,
     top_merchants |-> <<>>, biggest_expense_day |-> NoneStr]

\* the dict built after the loop from the accumulators totals, categories, merchants
\* and daily
stats_result(txs, totals, categories, merchants, daily, up, low) ==
    LET n_days      == IF Len(daily) > 1 THEN Len(daily) ELSE 1
        n_tx        == IF Len(txs) > 1 THEN Len(txs) ELSE 1
        cat_order   == sort_reverse([g \in 1..Len(categories) |->
                                         float_key(categories[g].amount, categories[g].inexact, low)],
                                     Len(categories))
        sorted_cats == [p \in 1..Len(categories) |-> categories[cat_order[p]]]
        m_order     == sort_reverse([g \in 1..Len(merchants) |-> merchants[g].count], Len(merchants))
        top_merch   == SubSeq([p \in 1..Len(merchants) |-> merchants[m_order[p]]], 1,
                              IF Len(merchants) < TopMerchants THEN Len(merchants) ELSE TopMerchants)
    IN  [none                |-> FALSE,
         total_spent         |-> round2(totals.total_spent, 1, up),
         total_income        |-> round2(totals.total_income, 1, up),
         net_cash_flow       |-> round2(totals.total_income - totals.total_spent, 1, up),
         transaction_count   |-> Len(txs),
         avg_daily_spend     |-> round2(totals.total_spent, n_days, up),
         avg_transaction     |-> round2(totals.total_spent, n_tx, up),
         category_breakdown  |-> [p \in 1..Len(sorted_cats) |->
                                    [category |-> sorted_cats[p].category,
                                     amount   |-> round2(sorted_cats[p].amount, 1, up)]],
         top_category        |-> IF sorted_cats # <<>> THEN Str(sorted_cats[1].category) ELSE NoneStr,
         top_category_amount |-> IF sorted_cats # <<>> THEN round2(sorted_cats[1].amount, 1, up) ELSE 0,
         top_merchants       |-> [p \in 1..Len(top_merch) |->
                                    [name   |-> top_merch[p].name,
                                     visits |-> top_merch[p].count,
                                     total  |-> round2(top_merch[p].total, 1, up)]],
         biggest_expense_day |-> biggest_expense_day(daily, low)]

\* the loop over the transactions, then the dict built from its accumulators
stats_dict(txs, up, low) ==
    stats_result(txs, stats_totals(txs, Len(txs)), stats_categories(txs), stats_merchants(txs),
                 stats_daily_spending(txs), up, low)

\* calculate_stats without the test for the empty batch
calculate_stats_unguarded(txs, up, low) == stats_dict(txs, up, low)

\* calculate_stats(transactions): None for an empty batch
calculate_stats(txs, up, low) == IF txs = <<>> THEN NoStats ELSE stats_dict(txs, up, low)

(***************************************************************************)
(* _tx_category and the route /today                                       *)
(***************************************************************************)
\* _tx_category without the replace("_", " ").title() of the primary category
tx_category_raw_primary(tx) ==
    LET pfc == tx.personal_finance_category
        raw == tx.category
    IN  IF pfc.k = "dict" /\ pfc.primary # <<>> THEN pfc.primary
        ELSE IF raw.k = "list" /\ raw.l # <<>> THEN raw.l[1]
        ELSE IF raw.k = "str" /\ raw.s # <<>> THEN raw.s
        ELSE Other

\* _tx_category(tx)
tx_category(tx) ==
    LET pfc == tx.personal_finance_category
        raw == tx.category
    IN  IF pfc.k = "dict" /\ pfc.primary # <<>>
        THEN str_title(str_replace_underscore(pfc.primary))
        ELSE IF raw.k = "list" /\ raw.l # <<>> THEN raw.l[1]
        ELSE IF raw.k = "str" /\ raw.s # <<>> THEN raw.s
        ELSE Other

\* recent_transactions holds at most this many entries
RecentCount == 5

\* the number of strings of S below s: an integer key that orders as s does
str_rank(s, S) == Cardinality({t \in S : str_less(t, s)})

\* recent: the positions of the transactions with a positive amount, sorted by
\* str(date) with reverse=True, the first RecentCount of them
today_recent(txs) ==
    LET pos   == IdxSeq(Len(txs), {i \in 1..Len(txs) : float_amount(txs[i]) > 0})
        dates == {date_str(txs[pos[p]]) : p \in 1..Len(pos)}
        order == sort_reverse([p \in 1..Len(pos) |-> str_rank(date_str(txs[pos[p]]), dates)], Len(pos))
        n     == IF Len(pos) < RecentCount THEN Len(pos) ELSE RecentCount
    IN  [p \in 1..n |-> pos[order[p]]]

\* recent_simple
today_recent_simple(txs, up) ==
    LET recent == today_recent(txs)
    IN  [p \in 1..Len(recent) |->
            LET tx == txs[recent[p]]
            IN  [name     |-> merchant_or(tx, Unknown),
                 amount   |-> round2(float_amount(tx), 1, up),
                 date     |-> date_str(tx),
                 category |-> tx_category(tx)]]

(***************************************************************************)
(* The batches: every transaction carries its position as transaction_id.  *)
(***************************************************************************)
Tx(id, amount, date, merchant_name, name, category, pfc) ==
    [transaction_id |-> id, amount |-> amount, date |-> date,
     merchant_name |-> merchant_name, name |-> name,
     category |-> category, personal_finance_category |-> pfc]

Food == <<"F", "o", "o", "d">>

FOOD == <<"F", "O", "O", "D">>

Travel == <<"T", "r", "a", "v", "e", "l">>

Ab == <<"A", "b">>

Cd == <<"C", "d">>

Jan05 == <<"2", "0", "2", "4", "-", "0", "1", "-", "0", "5">>

Feb07 == <<"2", "0", "2", "4", "-", "0", "2", "-", "0", "7">>

Mar09 == <<"2", "0", "2", "4", "-", "0", "3", "-", "0", "9">>

\* Food as legacy list with amounts of both signs and zero, Food as structured
\* field, Travel as bare string
AnomShapes ==
    {[amount |-> Num(x.a), date |-> Str(Jan05), merchant_name |-> Str(Ab), name |-> AbsentStr,
      category |-> x.category, pfc |-> x.pfc] :
        x \in {[a |-> a, category |-> CatList(<<Food>>), pfc |-> PfcNone] : a \in {-5000, 0, 70, 1000, 1200, 10000, 12000}}
              \cup {[a |-> a, category |-> CatNone, pfc |-> Pfc(FOOD)] : a \in {1000, 10000}}
              \cup {[a |-> a, category |-> CatStr(Travel), pfc |-> PfcNone] : a \in {-5000, 10000}}}

\* two merchants over two months: Ab is charged 100.00 or refunded 90.00, Cd is
\* charged 30.00
RecurShapes ==
    {[amount |-> Num(x.a), date |-> Str(d), merchant_name |-> Str(x.m), name |-> AbsentStr,
      category |-> CatList(<<Food>>), pfc |-> PfcNone] :
        x \in {[m |-> Ab, a |-> -9000], [m |-> Ab, a |-> 10000], [m |-> Cd, a |-> 3000]},
        d \in {Jan05, Feb07}}

\* one merchant over three months: 2.47 and 2.73 deviate from their mean by exactly
\* 5%, 100.00 is far from both
SubShapes ==
    {[amount |-> Num(a), date |-> Str(d), merchant_name |-> Str(Ab), name |-> AbsentStr,
      category |-> CatList(<<Food>>), pfc |-> PfcNone] :
        a \in {247, 273, 10000}, d \in {Jan05, Feb07, Mar09}}

Amazon4521 == <<"A", "m", "a", "z", "o", "n", " ", "#", "4", "5", "2", "1">>

Amazon9981 == <<"A", "m", "a", "z", "o", "n", " ", "#", "9", "9", "8", "1">>

AmazonStar == <<" ", "A", "M", "A", "Z", "O", "N", "*">>

Hash42 == <<"#", "4", "2">>

\* one merchant under names that differ by case, surrounding whitespace and
\* trailing digits/#/*, and a name of which nothing is left; 19.99 each time
KeyShapes ==
    {[amount |-> Num(1999), date |-> Str(d), merchant_name |-> Str(m), name |-> AbsentStr,
      category |-> CatList(<<Food>>), pfc |-> PfcNone] :
        m \in {Amazon4521, Amazon9981, AmazonStar, Hash42}, d \in {Jan05, Feb07}}

FastFood == <<"F", "A", "S", "T", "_", "F", "O", "O", "D">>

\* every combination of the structured field (missing, empty primary, primary) with
\* the legacy field (missing, empty list, list, empty str, str)
CatShapes ==
    {[amount |-> Num(1000), date |-> Str(Jan05), merchant_name |-> Str(Ab), name |-> AbsentStr,
      category |-> c, pfc |-> f] :
        c \in {CatNone, CatList(<<>>), CatList(<<Travel, Food>>), CatStr(<<>>), CatStr(Cd)},
        f \in {PfcNone, Pfc(<<>>), Pfc(FastFood)}}

\* the structured field and the legacy field in every combination of present and
\* missing, a small and a large charge, in two months
ResolverShapes ==
    {[amount |-> Num(a), date |-> Str(d), merchant_name |-> Str(Ab), name |-> AbsentStr,
      category |-> c, pfc |-> f] :
        a \in {1000, 10000}, d \in {Jan05, Feb07},
        c \in {CatNone, CatList(<<Travel, Food>>), CatStr(Cd)},
        f \in {PfcNone, Pfc(FastFood)}}

\* a refund in January and a charge in February at one merchant, both Food
ServiceShapes ==
    {[amount |-> Num(-2000), date |-> Str(Jan05), merchant_name |-> Str(Ab), name |-> AbsentStr,
      category |-> CatList(<<Food>>), pfc |-> PfcNone],
     [amount |-> Num(3000), date |-> Str(Feb07), merchant_name |-> Str(Ab), name |-> AbsentStr,
      category |-> CatList(<<Food>>), pfc |-> PfcNone]}

\* small charges and a refund in three categories: 0.10 + 0.20 and 0.30 are equal
\* sums
BreakdownShapes ==
    {[amount |-> Num(a), date |-> Str(Jan05), merchant_name |-> Str(Ab), name |-> AbsentStr,
      category |-> c, pfc |-> PfcNone] :
        a \in {-10, 10, 20, 30}, c \in {CatList(<<Food>>), CatList(<<Travel>>), CatNone}}

MerchantNames == <<<<"M", "a">>, <<"M", "b">>, <<"M", "c">>, <<"M", "d">>, <<"M", "e">>, <<"M", "f">>, <<"M", "g">>>>

\* a visit to merchant m
Visit(m, a) ==
    [amount |-> Num(a), date |-> Str(Jan05), merchant_name |-> Str(MerchantNames[m]), name |-> AbsentStr,
     category |-> CatList(<<Food>>), pfc |-> PfcNone]

\* one visit to each of five merchants
FiveVisits == [m \in 1..5 |-> Visit(m, 1000)]

\* further visits: to the first and the fifth of them and to two more merchants
TailShapes == {Visit(m, a) : m \in {1, 5, 6, 7}, a \in {-1000, 1000}}

\* the five visits followed by at most MaxLenTail further ones
VisitBatches ==
    UNION {{[i \in 1..(5 + n) |->
                LET v == IF i <= 5 THEN FiveVisits[i] ELSE f[i - 5]
                IN  Tx(i, v.amount, v.date, v.merchant_name, v.name, v.category, v.pfc)] :
            f \in [1..n -> TailShapes]} : n \in 0..MaxLenTail}

\* malformed records: an amount float() rejects, a date that is missing or None
MalShapes ==
    {[amount |-> a, date |-> d, merchant_name |-> Str(Ab), name |-> AbsentStr,
      category |-> CatList(<<Food>>), pfc |-> PfcNone] :
        a \in {BadAmount, Num(1000), Num(10000)}, d \in {Str(Jan05), Str(Feb07), AbsentStr, NoneStr}}

\* the batches of at most maxLen transactions of the given shapes
Batches(shapes, maxLen) ==
    UNION {{[i \in 1..n |-> Tx(i, f[i].amount, f[i].date, f[i].merchant_name, f[i].name,
                                f[i].category, f[i].pfc)] : f \in [1..n -> shapes]} : n \in 0..maxLen}

\* the records transactions_get answers backend.py with: a debit and a refund, the
\* category as legacy list, as bare string or absent, and one record without amount
BackendShapes ==
    {[amount |-> Num(a), date |-> Str(Jan05), merchant_name |-> Str(Ab), name |-> AbsentStr,
      category |-> c, pfc |-> PfcNone] : a \in {-5000, 10000}, c \in {CatList(<<Food>>), CatStr(Travel), CatNone}}
    \cup {[amount |-> AbsentAmount, date |-> Str(Jan05), merchant_name |-> Str(Ab), name |-> AbsentStr,
           category |-> CatNone, pfc |-> PfcNone]}

\* the thresholds passed to detect_anomalies, in tenths (2.0 is the default)
Thresholds == {10, 20}

Idle == [fn |-> "none", outcome |-> "none", threshold |-> 0]

(***************************************************************************)
(* The SQLite tables user_budgets and ai_reports.  request holds the       *)
(* arguments of the call in progress and reply what it returned; saves is  *)
(* the log of the save_budget calls that committed.  The columns           *)
(* updated_at and created_at are never read back by load_budgets and are   *)
(* left out.                                                               *)
(***************************************************************************)
Users == {"u1", "u2"}

BudgetCategories == {Food, Travel}

\* monthly limits in cents; the negative one is rejected
Limits == {-100, 0, 5000}

SetBys == {"ai", "user", "bot"}

NoRequest ==
    [user_id |-> "", category |-> <<>>, monthly_limit |-> 0, set_by |-> "",
     authorization |-> AbsentStr, x_user_id |-> AbsentStr]

\* touched is the set of user_id values the handler passed to the store functions
NoReply == [text |-> "", budgets |-> {}, recent |-> <<>>, history |-> <<>>, token |-> None, touched |-> {}]

\* the two tests at the head of save_budget: ValueError
save_budget_rejects(monthly_limit, set_by) == set_by \notin {"ai", "user"} \/ monthly_limit < 0

\* the CHECK constraints of the table user_budgets
check_user_budgets(row) == row.monthly_limit >= 0 /\ row.set_by \in {"ai", "user"}

\* upsert_budget with ON CONFLICT DO NOTHING: an existing row is kept
insert_or_ignore_budget(rows, user_id, category, monthly_limit, set_by) ==
    IF \E r \in rows : r.user_id = user_id /\ r.category = category
    THEN rows
    ELSE rows \cup {[user_id |-> user_id, category |-> category,
                     monthly_limit |-> monthly_limit, set_by |-> set_by]}

\* INSERT INTO user_budgets ... ON CONFLICT(user_id, category) DO UPDATE SET ...
upsert_budget(rows, user_id, category, monthly_limit, set_by) ==
    {r \in rows : ~(r.user_id = user_id /\ r.category = category)}
        \cup {[user_id |-> user_id, category |-> category,
                monthly_limit |-> monthly_limit, set_by |-> set_by]}

\* load_budgets(user_id): the entries category -> {limit, set_by} of the user's rows
load_budgets(rows, user_id) ==
    {[category |-> r.category, limit |-> r.monthly_limit, set_by |-> r.set_by] :
        r \in {x \in rows : x.user_id = user_id}}

\* json.dumps(stats): the document stored in the column stats_json
json_dumps(v) == [json |-> v]

\* json.loads(stats_json)
json_loads(doc) == doc.json

\* save_report that replaces the history by the new row
save_report_replacing(reports, user_id, report_type, report_text, stats_value) ==
    <<[id |-> 1, user_id |-> user_id, report_type |-> report_type,
       report_text |-> report_text, stats_json |-> json_dumps(stats_value)]>>

\* save_report: INSERT INTO ai_reports (user_id, report_type, report_text, stats_json,
\* created_at); id is AUTOINCREMENT and no row is ever deleted
save_report(reports, user_id, report_type, report_text, stats_value) ==
    Append(reports, [id |-> Len(reports) + 1, user_id |-> user_id, report_type |-> report_type,
                     report_text |-> report_text, stats_json |-> json_dumps(stats_value)])

\* what groq_generate returns: a fixed string when there is no client or the request
\* fails, else the text of the completion
Texts == {"AI unavailable", "completion"}

OnTrack == "All budgets on track!"

\* groq_alert returns its fixed string: no category with a budget is over its limit
\* and net_cash_flow >= 0
groq_alert_on_track(stats_value, budgets) ==
    /\ ~\E p \in 1..Len(stats_value.category_breakdown), e \in budgets :
            /\ e.category = stats_value.category_breakdown[p].category
            /\ stats_value.category_breakdown[p].amount > e.limit
    /\ stats_value.net_cash_flow >= 0

(***************************************************************************)
(* require_auth, get_user_id and the table plaid_items.  A header is       *)
(* Str(value) or AbsentStr.                                                *)
(***************************************************************************)
Bearer == <<"B", "e", "a", "r", "e", "r", " ">>

K1 == <<"k", "1">>

K2 == <<"k", "2">>

default_user == <<"d", "e", "f", "a", "u", "l", "t", "_", "u", "s", "e", "r">>

U1 == <<"u", "1">>

MAX_USER_ID_LEN == 128

\* request.headers.get(name, default)
headers_get(header, default) == IF header.k = "str" THEN header.s ELSE default

str_startswith(s, prefix) == Len(s) >= Len(prefix) /\ SubSeq(s, 1, Len(prefix)) = prefix

\* require_auth admitting every header that starts with 'Bearer '
require_auth_any_bearer(api_key, authorization) ==
    \/ api_key = <<>>
    \/ str_startswith(headers_get(authorization, <<>>), Bearer)

\* require_auth lets the request through to the handler
require_auth_admits(api_key, authorization) ==
    LET auth_header == headers_get(authorization, <<>>)
    IN  \/ api_key = <<>>
        \/ /\ str_startswith(auth_header, Bearer)
           /\ str_strip(SubSeq(auth_header, 8, Len(auth_header))) = api_key

\* the characters the pattern [^\w\-@.] leaves in place
UserIdChars == UpperLetters \cup LowerLetters \cup Digits \cup {"_", "-", "@", "."}

\* get_user_id()
get_user_id(x_user_id) ==
    LET raw     == headers_get(x_user_id, default_user)
        user_id == str_prefix(SelectSeq(str_strip(raw), LAMBDA c : c \in UserIdChars), MAX_USER_ID_LEN)
    IN  IF user_id = <<>> THEN default_user ELSE user_id

FakeAccessToken == "fake-access-token"

FakeItemId == "fake-item-id"

\* save_token: INSERT INTO plaid_items ... ON CONFLICT(user_id) DO UPDATE SET ...
save_token(rows, user_id, access_token, item_id) ==
    {r \in rows : r.user_id # user_id}
        \cup {[user_id |-> user_id, access_token |-> access_token, item_id |-> item_id]}

\* load_token(user_id): (access_token, item_id), or (None, None) without a row
load_token(rows, user_id) ==
    IF \E r \in rows : r.user_id = user_id
    THEN LET row == CHOOSE r \in rows : r.user_id = user_id
         IN  [access_token |-> row.access_token, item_id |-> row.item_id]
    ELSE [access_token |-> None, item_id |-> None]

\* delete_token: DELETE FROM plaid_items WHERE user_id = ?
delete_token(rows, user_id) == {r \in rows : r.user_id # user_id}

\* the test of sandbox_init, get_accounts and _get_transactions: a real token is stored
real_token(access_token) == access_token # None /\ access_token # FakeAccessToken

HistoryLimit == 5

\* load_report_history(user_id, limit): the user's rows, latest first
load_report_history(reports, user_id, limit) ==
    LET own == SelectSeq(reports, LAMBDA r : r.user_id = user_id)
        n   == IF Len(own) < limit THEN Len(own) ELSE limit
    IN  [p \in 1..n |-> [id     |-> own[Len(own) + 1 - p].id,
                         type   |-> own[Len(own) + 1 - p].report_type,
                         report |-> own[Len(own) + 1 - p].report_text,
                         stats  |-> json_loads(own[Len(own) + 1 - p].stats_json)]]

(***************************************************************************)
(* The FAQ answer selector: src/preprocessing.py (clean_text),             *)
(* src/intent.py (detect_intent), src/similarity.py (compute_similarity)   *)
(* and src/answer-selector.py (select_answer).                             *)
(***************************************************************************)
\* s contains sub as a substring ('sub in s')
str_contains(s, sub) ==
    \E i \in 0..(Len(s) - Len(sub)) : SubSeq(s, i + 1, i + Len(sub)) = sub

\* re.sub(r"\s+", " ", text): a run of whitespace becomes one space
collapse_whitespace(s) ==
    LET keep == IdxSeq(Len(s), {i \in 1..Len(s) : ~(s[i] \in Whitespace /\ i > 1 /\ s[i - 1] \in Whitespace)})
    IN  [p \in 1..Len(keep) |-> IF s[keep[p]] \in Whitespace THEN " " ELSE s[keep[p]]]

\* clean_text(text)
clean_text(text) ==
    str_strip(collapse_whitespace(
        SelectSeq(str_lower(text), LAMBDA c : c \in LowerLetters \cup Digits \cup Whitespace)))

\* the dict TOPICS, in insertion order
TOPICS ==
    <<[topic |-> <<"h", "o", "m", "e", "p", "a", "g", "e">>,
       keywords |-> <<<<"h", "o", "m", "e", "p", "a", "g", "e">>,
                      <<"h", "o", "m", "e">>,
                      <<"m", "a", "i", "n", " ", "p", "a", "g", "e">>>>],
      [topic |-> <<"m", "i", "s", "s", "i", "o", "n">>,
       keywords |-> <<<<"m", "i", "s", "s", "i", "o", "n">>,
                      <<"g", "o", "a", "l">>,
                      <<"p", "u", "r", "p", "o", "s", "e">>>>],
      [topic |-> <<"a", "b", "o", "u", "t">>,
       keywords |-> <<<<"a", "b", "o", "u", "t">>,
                      <<"c", "o", "m", "p", "a", "n", "y">>,
                      <<"i", "n", "f", "o">>>>],
      [topic |-> <<"c", "o", "n", "t", "a", "c", "t">>,
       keywords |-> <<<<"c", "o", "n", "t", "a", "c", "t">>,
                      <<"s", "u", "p", "p", "o", "r", "t">>,
                      <<"h", "e", "l", "p">>>>],
      [topic |-> <<"r", "e", "s", "o", "u", "r", "c", "e", "s">>,
       keywords |-> <<<<"r", "e", "s", "o", "u", "r", "c", "e", "s">>,
                      <<"t", "o", "o", "l", "s">>,
                      <<"f", "e", "a", "t", "u", "r", "e", "s">>>>],
      [topic |-> <<"f", "a", "q", "s">>,
       keywords |-> <<<<"f", "a", "q", "s">>,
                      <<"q", "u", "e", "s", "t", "i", "o", "n", "s">>,
                      <<"h", "e", "l", "p">>>>],
      [topic |-> <<"t", "e", "s", "t", "i", "m", "o", "n", "i", "a", "l", "s">>,
       keywords |-> <<<<"r", "e", "v", "i", "e", "w", "s">>,
                      <<"f", "e", "e", "d", "b", "a", "c", "k">>,
                      <<"t", "e", "s", "t", "i", "m", "o", "n", "i", "a", "l", "s">>>>],
      [topic |-> <<"b", "l", "o", "g">>,
       keywords |-> <<<<"b", "l", "o", "g">>,
                      <<"a", "r", "t", "i", "c", "l", "e", "s">>,
                      <<"n", "e", "w", "s">>>>],
      [topic |-> <<"s", "e", "r", "v", "i", "c", "e", "s">>,
       keywords |-> <<<<"s", "e", "r", "v", "i", "c", "e", "s">>,
                      <<"o", "f", "f", "e", "r", "i", "n", "g", "s">>,
                      <<"p", "r", "o", "d", "u", "c", "t", "s">>>>],
      [topic |-> <<"t", "e", "a", "m">>,
       keywords |-> <<<<"t", "e", "a", "m">>,
                      <<"s", "t", "a", "f", "f">>,
                      <<"e", "m", "p", "l", "o", "y", "e", "e", "s">>>>]>>

unknown == <<"u", "n", "k", "n", "o", "w", "n">>

\* detect_intent(user_text)
detect_intent(user_text) ==
    LET text    == clean_text(user_text)
        matches == {t \in 1..Len(TOPICS) :
                       \E k \in 1..Len(TOPICS[t].keywords) : str_contains(text, TOPICS[t].keywords[k])}
    IN  IF matches = {} THEN unknown
        ELSE TOPICS[CHOOSE t \in matches : \A u \in matches : t <= u].topic

\* the similarities cosine_similarity gives the stored questions
Scores == {0, 1}

\* sim_matrix.argmax(): the first index (counted from 0) of the greatest similarity
argmax(sim) ==
    LET best == {i \in 1..Len(sim) : \A j \in 1..Len(sim) : sim[j] <= sim[i]}
    IN  (CHOOSE i \in best : \A j \in best : i <= j) - 1

\* filtered_qs of select_answer, as positions of questions (counted from 1)
filtered_qs(intent, questions, answers) ==
    LET paired == IF Len(questions) < Len(answers) THEN Len(questions) ELSE Len(answers)
        kept   == IdxSeq(Len(questions), {i \in 1..paired : str_contains(str_lower(questions[i]), intent)})
    IN  IF kept = <<>> THEN [i \in 1..Len(questions) |-> i] ELSE kept

\* select_answer raises: compute_similarity has no stored question to compare with,
\* or answers has no element idx
select_answer_raises(questions, answers, sim) ==
    sim = <<>> \/ argmax(sim) + 1 > Len(answers)

\* select_answer(user_question, questions, answers) when sim are the similarities
\* of the questions of filtered_qs
select_answer(user_question, questions, answers, sim) ==
    LET intent == detect_intent(user_question)
        idx    == argmax(sim)
    IN  [answer |-> answers[idx + 1], intent |-> intent, idx |-> idx]

\* the stored questions of the module's example
Questions ==
    {<<"W", "h", "a", "t", " ", "i", "s", " ", "y", "o", "u", "r", " ", "m", "i", "s", "s", "i", "o", "n", "?">>,
     <<"T", "e", "l", "l", " ", "m", "e", " ", "a", "b", "o", "u", "t", " ", "t", "h", "e", " ", "h", "o", "m", "e", "p", "a", "g", "e">>,
     <<"H", "o", "w", " ", "t", "o", " ", "c", "o", "n", "t", "a", "c", "t", " ", "y", "o", "u", "?">>}

\* user questions with the intents mission, homepage and unknown
UserQuestions ==
    {<<"T", "e", "l", "l", " ", "m", "e", " ", "y", "o", "u", "r", " ", "p", "u", "r", "p", "o", "s", "e">>,
     <<"S", "h", "o", "w", " ", "t", "h", "e", " ", "H", "o", "m", "e", "p", "a", "g", "e", "!">>,
     <<"h", "e", "l", "l", "o">>}

\* the answers of n stored questions: one per question, named by its position
AnswersFor(n) == [i \in 1..n |-> IF i = 1 THEN "a1" ELSE IF i = 2 THEN "a2" ELSE IF i = 3 THEN "a3" ELSE "a4"]

(***************************************************************************)
(* src/backend.py: the earlier single-user service.  db is its in-memory   *)
(* storage and analyze_transactions its statistics.                        *)
(***************************************************************************)
\* the global db as the module creates it
NoDb == [access_token |-> None, item_id |-> None, status |-> "not_connected"]

\* the access tokens and item ids item_public_token_exchange answers with
AccessTokens == {"access-1", "access-2"}

item_of(access_token) == IF access_token = "access-1" THEN "item-1" ELSE "item-2"

\* the request bodies of POST /exchange_token: no JSON document, a document
\* without public_token, a document with one
ExchangeBodies == {"no_json", "no_public_token", "public-1"}

\* no insight is held
NoInsight == [total_spent |-> 0, top_category |-> NoneStr, category_breakdown |-> <<>>]

\* tx["category"][0] if tx.get("category") else "Other"
backend_category(tx) ==
    LET raw_cat == tx.category
    IN  IF raw_cat.k = "list" /\ raw_cat.l # <<>> THEN raw_cat.l[1]
        ELSE IF raw_cat.k = "str" /\ raw_cat.s # <<>> THEN <<raw_cat.s[1]>>
        ELSE Other

\* tx["amount"] is missing (KeyError) or cannot be added to a number (TypeError)
analyze_raises(txs) == \E i \in 1..Len(txs) : txs[i].amount.k # "num"

\* the dict categories of analyze_transactions, in insertion order
backend_categories(txs) ==
    LET first == {i \in 1..Len(txs) : \A j \in 1..Len(txs) : j < i => backend_category(txs[j]) # backend_category(txs[i])}
        heads == IdxSeq(Len(txs), first)
    IN  [g \in 1..Len(heads) |->
            LET members == IdxSeq(Len(txs), {i \in 1..Len(txs) : backend_category(txs[i]) = backend_category(txs[heads[g]])})
            IN  [category |-> backend_category(txs[heads[g]]),
                 amount   |-> SeqSum([p \in 1..Len(members) |-> txs[members[p]].amount.n]),
                 inexact  |-> float_sum_inexact(txs, members)]]

\* analyze_transactions(transactions) when no amount raises
analyze_transactions(txs, up, low) ==
    LET categories == backend_categories(txs)
        key(g)     == float_key(categories[g].amount, categories[g].inexact, low)
        best       == {g \in 1..Len(categories) : \A h \in 1..Len(categories) : key(h) <= key(g)}
    IN  [total_spent        |-> round2(SeqSum([i \in 1..Len(txs) |-> txs[i].amount.n]), 1, up),
         top_category       |-> IF categories = <<>> THEN NoneStr
                                ELSE Str(categories[CHOOSE g \in best : \A h \in best : g <= h].category),
         category_breakdown |-> categories]

\* no call is in progress and no result is held
InitCall ==
    /\ call = Idle
    /\ stats = NoStats
    /\ recurring = <<>>
    /\ anomalies = <<>>
    /\ request = NoRequest
    /\ reply = NoReply

\* the tables as init_db creates them
InitStore ==
    /\ user_budgets = {}
    /\ ai_reports = <<>>
    /\ saves = <<>>

\* no /budgets/auto request is between its load_budgets and its last save_budget
NoPending == [user_id |-> <<>>, overwrite_user |-> FALSE, existing |-> {}, recommended |-> <<>>, done |-> 0]

\* _fetch_all_transactions is not running
NoFetch == [at |-> "idle", all_tx |-> <<>>, total |-> 0, pages |-> 0, requests |-> 0, offset |-> 0]

\* no question has been put to select_answer
NoFaq == [user_question |-> <<>>, questions |-> <<>>, answers |-> <<>>]

NoSelection == [answer |-> "", intent |-> <<>>, idx |-> 0]

\* the state of the other modules and tables, which the calls above neither read
\* nor write
outside == <<insight, db, plaid_items, API_KEY, SIMULATION_MODE, pending, fetch, faq, selection>>

InitOutside ==
    /\ insight = NoInsight
    /\ db = NoDb
    /\ plaid_items = {}
    /\ API_KEY = <<>>
    /\ SIMULATION_MODE = TRUE
    /\ pending = NoPending
    /\ fetch = NoFetch
    /\ faq = NoFaq
    /\ selection = NoSelection

InitAnomalies == transactions \in Batches(AnomShapes, MaxLenAnom) /\ InitCall /\ InitStore /\ InitOutside

InitRecurring ==
    /\ transactions \in Batches(RecurShapes, MaxLenRecur) \cup Batches(SubShapes, MaxLenSub)
                          \cup Batches(KeyShapes, MaxLenKey)
    /\ InitCall
    /\ InitStore
    /\ InitOutside

InitMalformed == transactions \in Batches(MalShapes, MaxLenMal) /\ InitCall /\ InitStore /\ InitOutside

InitStats ==
    /\ transactions \in Batches(CatShapes, MaxLenCat) \cup Batches(BreakdownShapes, MaxLenBreak)
                          \cup VisitBatches
    /\ InitCall
    /\ InitStore
    /\ InitOutside

InitBudgets == transactions = <<>> /\ InitCall /\ InitStore /\ InitOutside

\* the budget rows present when the service is started: none, or one set by the user
StoredBudgets ==
    {<<>>, <<[user_id |-> "u1", category |-> Food, monthly_limit |-> 0, set_by |-> "user"]>>}

InitService ==
    /\ transactions \in Batches(ServiceShapes, MaxLenService)
    /\ InitCall
    /\ ai_reports = <<>>
    /\ saves \in StoredBudgets
    /\ user_budgets = {saves[n] : n \in 1..Len(saves)}
    /\ InitOutside

InitResolvers == transactions \in Batches(ResolverShapes, MaxLenResolver) /\ InitCall /\ InitStore /\ InitOutside

\* a call of calculate_stats(transactions); it never raises
CalculateStats ==
    /\ UNCHANGED outside
    /\ call = Idle
    /\ \E up \in BOOLEAN, low \in BOOLEAN :
        /\ call' = [fn |-> "calculate_stats", outcome |-> "return", threshold |-> 0]
        /\ stats' = calculate_stats(transactions, up, low)
        /\ recurring' = <<>>
        /\ anomalies' = <<>>
        /\ UNCHANGED <<transactions, request, reply, user_budgets, ai_reports, saves>>

\* a call of detect_recurring_transactions(transactions)
DetectRecurring ==
    /\ UNCHANGED outside
    /\ call = Idle
    /\ \E up \in BOOLEAN, low \in BOOLEAN :
        /\ IF detect_recurring_raises(transactions)
           THEN /\ call' = [fn |-> "detect_recurring_transactions", outcome |-> "raise", threshold |-> 0]
                /\ recurring' = <<>>
           ELSE /\ call' = [fn |-> "detect_recurring_transactions", outcome |-> "return", threshold |-> 0]
                /\ recurring' = detect_recurring_transactions(transactions, up, low)
        /\ stats' = NoStats
        /\ anomalies' = <<>>
        /\ UNCHANGED <<transactions, request, reply, user_budgets, ai_reports, saves>>

\* a call of detect_anomalies(transactions, threshold)
DetectAnomalies ==
    /\ UNCHANGED outside
    /\ call = Idle
    /\ \E threshold \in Thresholds, up \in BOOLEAN, low \in BOOLEAN :
        /\ IF detect_anomalies_raises(transactions)
           THEN /\ call' = [fn |-> "detect_anomalies", outcome |-> "raise", threshold |-> threshold]
                /\ anomalies' = <<>>
           ELSE /\ call' = [fn |-> "detect_anomalies", outcome |-> "return", threshold |-> threshold]
                /\ anomalies' = detect_anomalies(transactions, threshold, up, low)
        /\ stats' = NoStats
        /\ recurring' = <<>>
        /\ UNCHANGED <<transactions, request, reply, user_budgets, ai_reports, saves>>

\* the caller has consumed the result (or the exception); nothing of the call is
\* kept and the batch can be handed to another call
Respond ==
    /\ UNCHANGED outside
    /\ call # Idle
    /\ call' = Idle
    /\ stats' = NoStats
    /\ recurring' = <<>>
    /\ anomalies' = <<>>
    /\ request' = NoRequest
    /\ reply' = NoReply
    /\ UNCHANGED <<transactions, user_budgets, ai_reports, saves>>

\* a call of save_budget(user_id, category, monthly_limit, set_by); db_ok is false
\* when SQLite fails (sqlite3.Error: rollback and re-raise)
SaveBudget ==
    /\ UNCHANGED outside
    /\ call = Idle
    /\ Len(saves) < MaxSaves
    /\ \E user_id \in Users, category \in BudgetCategories, monthly_limit \in Limits,
          set_by \in SetBys, db_ok \in BOOLEAN :
        LET row == [user_id |-> user_id, category |-> category,
                    monthly_limit |-> monthly_limit, set_by |-> set_by]
        IN  /\ request' = row
            /\ IF save_budget_rejects(monthly_limit, set_by) \/ ~check_user_budgets(row) \/ ~db_ok
               THEN /\ call' = [fn |-> "save_budget", outcome |-> "raise", threshold |-> 0]
                    /\ UNCHANGED <<user_budgets, saves>>
               ELSE /\ call' = [fn |-> "save_budget", outcome |-> "return", threshold |-> 0]
                    /\ user_budgets' = upsert_budget(user_budgets, user_id, category, monthly_limit, set_by)
                    /\ saves' = Append(saves, row)
    /\ UNCHANGED <<transactions, stats, recurring, anomalies, reply, ai_reports>>

\* a call of load_budgets(user_id)
LoadBudgets ==
    /\ UNCHANGED outside
    /\ call = Idle
    /\ \E user_id \in Users :
        /\ call' = [fn |-> "load_budgets", outcome |-> "return", threshold |-> 0]
        /\ request' = [NoRequest EXCEPT !.user_id = user_id]
        /\ reply' = [NoReply EXCEPT !.budgets = load_budgets(user_budgets, user_id)]
    /\ UNCHANGED <<transactions, stats, recurring, anomalies, user_budgets, ai_reports, saves>>

\* GET /today on the resolved batch; fetch_ok is false when _resolve_transactions
\* returns an error response.  float(tx.get("amount", 0) or 0) raises on a
\* non-numeric str and reads None as 0 (bad_is_str tells the two apart), after which
\* detect_recurring_transactions may still raise.  today_spent, week_spent and
\* upcoming_bills depend on the clock and are not part of reply.
Today ==
    /\ UNCHANGED outside
    /\ call = Idle
    /\ \E fetch_ok \in BOOLEAN, up \in BOOLEAN, low \in BOOLEAN, bad_is_str \in BOOLEAN :
        IF ~fetch_ok
        THEN /\ call' = [fn |-> "today", outcome |-> "error", threshold |-> 0]
             /\ recurring' = <<>>
             /\ reply' = NoReply
        ELSE IF \/ detect_recurring_raises(transactions)
                \/ (bad_is_str /\ \E i \in 1..Len(transactions) : float_raises(transactions[i]))
        THEN /\ call' = [fn |-> "today", outcome |-> "raise", threshold |-> 0]
             /\ recurring' = <<>>
             /\ reply' = NoReply
        ELSE /\ call' = [fn |-> "today", outcome |-> "return", threshold |-> 0]
             /\ recurring' = detect_recurring_transactions(transactions, up, low)
             /\ reply' = [NoReply EXCEPT !.recent = today_recent_simple(transactions, up)]
    /\ stats' = NoStats
    /\ anomalies' = <<>>
    /\ request' = NoRequest
    /\ UNCHANGED <<transactions, user_budgets, ai_reports, saves>>

\* GET /transactions; resolved is false when a parameter is rejected by
\* validate_int_param or _resolve_transactions returns an error response.  The page
\* of the response is a slice of the batch.
GetTransactions ==
    /\ UNCHANGED outside
    /\ call = Idle
    /\ \E resolved \in BOOLEAN, up \in BOOLEAN, low \in BOOLEAN :
        IF ~resolved
        THEN /\ call' = [fn |-> "transactions", outcome |-> "error", threshold |-> 0]
             /\ stats' = NoStats
        ELSE /\ call' = [fn |-> "transactions", outcome |-> "return", threshold |-> 0]
             /\ stats' = calculate_stats(transactions, up, low)
    /\ recurring' = <<>>
    /\ anomalies' = <<>>
    /\ request' = NoRequest
    /\ reply' = NoReply
    /\ UNCHANGED <<transactions, user_budgets, ai_reports, saves>>

\* GET /report for user_id: 400 when the statistics are empty; db_ok is false when
\* the INSERT of save_report fails (rollback, the exception propagates)
GetReport ==
    /\ UNCHANGED outside
    /\ call = Idle
    /\ Len(ai_reports) < MaxReports
    /\ \E user_id \in Users, resolved \in BOOLEAN :
        /\ request' = [NoRequest EXCEPT !.user_id = user_id]
        /\ IF ~resolved
           THEN /\ call' = [fn |-> "report", outcome |-> "error", threshold |-> 0]
                /\ stats' = NoStats
                /\ reply' = NoReply
                /\ UNCHANGED ai_reports
           ELSE \E up \in BOOLEAN, low \in BOOLEAN :
                LET st == calculate_stats(transactions, up, low) IN
                IF st.none
                THEN /\ call' = [fn |-> "report", outcome |-> "error", threshold |-> 0]
                     /\ stats' = NoStats
                     /\ reply' = NoReply
                     /\ UNCHANGED ai_reports
                ELSE \E db_ok \in BOOLEAN :
                     IF ~db_ok
                     THEN /\ call' = [fn |-> "report", outcome |-> "raise", threshold |-> 0]
                          /\ stats' = NoStats
                          /\ reply' = NoReply
                          /\ UNCHANGED ai_reports
                     ELSE \E report_text \in Texts :
                              /\ call' = [fn |-> "report", outcome |-> "return", threshold |-> 0]
                              /\ stats' = st
                              /\ reply' = [NoReply EXCEPT !.text = report_text]
                              /\ ai_reports' = save_report(ai_reports, user_id, "full_report", report_text, st)
    /\ recurring' = <<>>
    /\ anomalies' = <<>>
    /\ UNCHANGED <<transactions, user_budgets, saves>>

\* GET /alert for user_id
GetAlert ==
    /\ UNCHANGED outside
    /\ call = Idle
    /\ Len(ai_reports) < MaxReports
    /\ \E user_id \in Users, resolved \in BOOLEAN :
        /\ request' = [NoRequest EXCEPT !.user_id = user_id]
        /\ IF ~resolved
           THEN /\ call' = [fn |-> "alert", outcome |-> "error", threshold |-> 0]
                /\ stats' = NoStats
                /\ reply' = NoReply
                /\ UNCHANGED ai_reports
           ELSE \E up \in BOOLEAN, low \in BOOLEAN :
                LET st == calculate_stats(transactions, up, low) IN
                IF st.none
                THEN /\ call' = [fn |-> "alert", outcome |-> "error", threshold |-> 0]
                     /\ stats' = NoStats
                     /\ reply' = NoReply
                     /\ UNCHANGED ai_reports
                ELSE \E db_ok \in BOOLEAN :
                     IF ~db_ok
                     THEN /\ call' = [fn |-> "alert", outcome |-> "raise", threshold |-> 0]
                          /\ stats' = NoStats
                          /\ reply' = NoReply
                          /\ UNCHANGED ai_reports
                     ELSE \E generated \in Texts :
                          LET budgets    == load_budgets(user_budgets, user_id)
                              alert_text == IF groq_alert_on_track(st, budgets) THEN OnTrack ELSE generated
                          IN  /\ call' = [fn |-> "alert", outcome |-> "return", threshold |-> 0]
                              /\ stats' = st
                              /\ reply' = [NoReply EXCEPT !.text = alert_text, !.budgets = budgets]
                              /\ ai_reports' = save_report(ai_reports, user_id, "alert", alert_text, st)
    /\ recurring' = <<>>
    /\ anomalies' = <<>>
    /\ UNCHANGED <<transactions, user_budgets, saves>>

\* GET /recurring
GetRecurring ==
    /\ UNCHANGED outside
    /\ call = Idle
    /\ \E resolved \in BOOLEAN, up \in BOOLEAN, low \in BOOLEAN :
        IF ~resolved
        THEN /\ call' = [fn |-> "recurring", outcome |-> "error", threshold |-> 0]
             /\ recurring' = <<>>
        ELSE IF detect_recurring_raises(transactions)
        THEN /\ call' = [fn |-> "recurring", outcome |-> "raise", threshold |-> 0]
             /\ recurring' = <<>>
        ELSE /\ call' = [fn |-> "recurring", outcome |-> "return", threshold |-> 0]
             /\ recurring' = detect_recurring_transactions(transactions, up, low)
    /\ stats' = NoStats
    /\ anomalies' = <<>>
    /\ request' = NoRequest
    /\ reply' = NoReply
    /\ UNCHANGED <<transactions, user_budgets, ai_reports, saves>>

\* GET /anomalies with a threshold that validate_int_param accepts
GetAnomalies ==
    /\ UNCHANGED outside
    /\ call = Idle
    /\ \E resolved \in BOOLEAN, threshold \in Thresholds, up \in BOOLEAN, low \in BOOLEAN :
        IF ~resolved
        THEN /\ call' = [fn |-> "anomalies", outcome |-> "error", threshold |-> threshold]
             /\ anomalies' = <<>>
        ELSE IF detect_anomalies_raises(transactions)
        THEN /\ call' = [fn |-> "anomalies", outcome |-> "raise", threshold |-> threshold]
             /\ anomalies' = <<>>
        ELSE /\ call' = [fn |-> "anomalies", outcome |-> "return", threshold |-> threshold]
             /\ anomalies' = detect_anomalies(transactions, threshold, up, low)
    /\ stats' = NoStats
    /\ recurring' = <<>>
    /\ request' = NoRequest
    /\ reply' = NoReply
    /\ UNCHANGED <<transactions, user_budgets, ai_reports, saves>>

\* POST /chat for user_id; resolved is false when the message is rejected or
\* _resolve_transactions returns an error response.  With a Groq client groq_chat
\* converts the amounts and calls detect_recurring_transactions, and raises as
\* /today does; without one it answers by rule.
Chat ==
    /\ UNCHANGED outside
    /\ call = Idle
    /\ \E user_id \in Users, resolved \in BOOLEAN :
        /\ request' = [NoRequest EXCEPT !.user_id = user_id]
        /\ IF ~resolved
           THEN /\ call' = [fn |-> "chat", outcome |-> "error", threshold |-> 0]
                /\ stats' = NoStats
                /\ reply' = NoReply
           ELSE \E up \in BOOLEAN, low \in BOOLEAN :
                LET st == calculate_stats(transactions, up, low) IN
                IF st.none
                THEN /\ call' = [fn |-> "chat", outcome |-> "error", threshold |-> 0]
                     /\ stats' = NoStats
                     /\ reply' = NoReply
                ELSE \E client \in BOOLEAN, bad_is_str \in BOOLEAN :
                     IF client /\ (\/ detect_recurring_raises(transactions)
                                   \/ (bad_is_str /\ \E i \in 1..Len(transactions) : float_raises(transactions[i])))
                     THEN /\ call' = [fn |-> "chat", outcome |-> "raise", threshold |-> 0]
                          /\ stats' = NoStats
                          /\ reply' = NoReply
                     ELSE \E answer \in Texts :
                          /\ call' = [fn |-> "chat", outcome |-> "return", threshold |-> 0]
                          /\ stats' = st
                          /\ reply' = [NoReply EXCEPT !.text = answer]
    /\ recurring' = <<>>
    /\ anomalies' = <<>>
    /\ UNCHANGED <<transactions, user_budgets, ai_reports, saves>>

Next == CalculateStats \/ DetectRecurring \/ DetectAnomalies \/ Respond

SpecAnomalies == InitAnomalies /\ [][Next]_vars

SpecRecurring == InitRecurring /\ [][Next]_vars

SpecMalformed == InitMalformed /\ [][Next]_vars

SpecStats == InitStats /\ [][Next]_vars

NextResolvers == CalculateStats \/ DetectRecurring \/ DetectAnomalies \/ Today \/ Respond

SpecResolvers == InitResolvers /\ [][NextResolvers]_vars

NextService ==
    \/ GetTransactions \/ GetReport \/ GetAlert \/ GetRecurring \/ GetAnomalies
    \/ Chat \/ Today \/ Respond

SpecService == InitService /\ [][NextService]_vars

NextBudgets == SaveBudget \/ LoadBudgets \/ Respond

SpecBudgets == InitBudgets /\ [][NextBudgets]_vars

(***************************************************************************)
(* The routes of src/backend.py.  Each action is one request served to its *)
(* response: call.outcome is the HTTP status and reply.text the error.     *)
(***************************************************************************)
InitBackend ==
    /\ transactions \in Batches(BackendShapes, MaxLenBackend)
    /\ InitCall
    /\ InitStore
    /\ InitOutside

\* POST /exchange_token of backend.py; plaid_ok is false when
\* item_public_token_exchange raises
BackendExchangeToken ==
    /\ UNCHANGED <<plaid_items, API_KEY, SIMULATION_MODE, pending, fetch, faq, selection>>
    /\ \E body \in ExchangeBodies, plaid_ok \in BOOLEAN, access_token \in AccessTokens :
        IF body = "no_public_token"
        THEN /\ call' = [fn |-> "backend.exchange_token", outcome |-> "400", threshold |-> 0]
             /\ reply' = [NoReply EXCEPT !.text = "Missing public_token"]
             /\ UNCHANGED db
        ELSE IF body = "no_json" \/ ~plaid_ok
        THEN /\ call' = [fn |-> "backend.exchange_token", outcome |-> "500", threshold |-> 0]
             /\ reply' = [NoReply EXCEPT !.text = "str(e)"]
             /\ db' = [db EXCEPT !.status = "failed"]
        ELSE /\ call' = [fn |-> "backend.exchange_token", outcome |-> "200", threshold |-> 0]
             /\ reply' = [NoReply EXCEPT !.text = "Bank connected successfully"]
             /\ db' = [access_token |-> access_token, item_id |-> item_of(access_token),
                       status |-> "connected"]
    /\ insight' = NoInsight
    /\ UNCHANGED <<transactions, stats, recurring, anomalies, request, user_budgets, ai_reports, saves>>

\* GET /accounts of backend.py; plaid_ok is false when accounts_get raises
BackendGetAccounts ==
    /\ UNCHANGED <<plaid_items, API_KEY, SIMULATION_MODE, pending, fetch, faq, selection>>
    /\ \E plaid_ok \in BOOLEAN :
        IF db.access_token = None
        THEN /\ call' = [fn |-> "backend.get_accounts", outcome |-> "400", threshold |-> 0]
             /\ reply' = [NoReply EXCEPT !.text = "Bank not connected"]
        ELSE IF ~plaid_ok
        THEN /\ call' = [fn |-> "backend.get_accounts", outcome |-> "500", threshold |-> 0]
             /\ reply' = [NoReply EXCEPT !.text = "str(e)"]
        ELSE /\ call' = [fn |-> "backend.get_accounts", outcome |-> "200", threshold |-> 0]
             /\ reply' = NoReply
    /\ insight' = NoInsight
    /\ UNCHANGED <<transactions, stats, recurring, anomalies, request, user_budgets, ai_reports, saves, db>>

\* GET /transactions of backend.py; plaid_ok is false when transactions_get raises
BackendGetTransactions ==
    /\ UNCHANGED <<plaid_items, API_KEY, SIMULATION_MODE, pending, fetch, faq, selection>>
    /\ \E plaid_ok \in BOOLEAN, up \in BOOLEAN, low \in BOOLEAN :
        IF db.access_token = None
        THEN /\ call' = [fn |-> "backend.get_transactions", outcome |-> "400", threshold |-> 0]
             /\ reply' = [NoReply EXCEPT !.text = "Bank not connected"]
             /\ insight' = NoInsight
        ELSE IF ~plaid_ok \/ analyze_raises(transactions)
        THEN /\ call' = [fn |-> "backend.get_transactions", outcome |-> "500", threshold |-> 0]
             /\ reply' = [NoReply EXCEPT !.text = "str(e)"]
             /\ insight' = NoInsight
        ELSE /\ call' = [fn |-> "backend.get_transactions", outcome |-> "200", threshold |-> 0]
             /\ reply' = NoReply
             /\ insight' = analyze_transactions(transactions, up, low)
    /\ UNCHANGED <<transactions, stats, recurring, anomalies, request, user_budgets, ai_reports, saves, db>>

NextBackend == BackendExchangeToken \/ BackendGetAccounts \/ BackendGetTransactions

SpecBackend == InitBackend /\ [][NextBackend]_vars

(***************************************************************************)
(* The routes of src/transactions.py that work on the stored token, the    *)
(* budgets and the report history, each behind require_auth.  An action is *)
(* one request served to its response: request holds its two headers,      *)
(* call.outcome the HTTP status.                                           *)
(***************************************************************************)
\* the values of the header Authorization
AuthHeaders ==
    {AbsentStr, Str(K1), Str(Bearer \o <<" ">> \o K1 \o <<" ">>), Str(Bearer \o K2)}

\* the values of the header X-User-Id
UserIdHeaders == {AbsentStr, Str(U1), Str(<<"u", " ", "1">>)}

\* the values os.getenv("API_KEY", "").strip() can have
ApiKeys == {<<>>, K1}

\* public_token of the body: "" stands for a missing, blank or non-str value
PublicTokens == {"", "fake-public-token", "public-1"}

\* what a call of the Plaid client does: it answers, or raises ApiException with
\* an error_code, or raises another exception
PlaidOutcomes == {"ok", "ITEM_LOGIN_REQUIRED", "UNKNOWN", "Exception"}

\* _PLAID_STATUS_MAP.get(error_code, 502)
plaid_status(error_code) == IF error_code = "ITEM_LOGIN_REQUIRED" THEN "401" ELSE "502"

\* the report rows present when the service is started
StoredReports ==
    {<<>>} \cup {<<[id |-> 1, user_id |-> u, report_type |-> "report", report_text |-> "completion",
                    stats_json |-> json_dumps(NoStats)]>> : u \in {U1, default_user}}

\* the budget rows present when the service is started
StoredUserBudgets ==
    {{}, {[user_id |-> U1, category |-> Food, monthly_limit |-> 0, set_by |-> "user"]}}

\* the token rows present when the service is started
StoredTokens ==
    {{}, {[user_id |-> U1, access_token |-> "access-1", item_id |-> "item-1"]}}

\* the service is started with or without Plaid credentials and with no token stored
InitTokens ==
    /\ transactions = <<>>
    /\ InitCall
    /\ InitStore
    /\ insight = NoInsight
    /\ db = NoDb
    /\ API_KEY \in ApiKeys
    /\ SIMULATION_MODE \in BOOLEAN
    /\ plaid_items = {}
    /\ pending = NoPending
    /\ fetch = NoFetch
    /\ faq = NoFaq
    /\ selection = NoSelection

\* the service is started with Plaid credentials on tables written by earlier runs
InitGuarded ==
    /\ transactions = <<>>
    /\ InitCall
    /\ insight = NoInsight
    /\ db = NoDb
    /\ API_KEY \in ApiKeys
    /\ SIMULATION_MODE = FALSE
    /\ plaid_items \in StoredTokens
    /\ user_budgets \in StoredUserBudgets
    /\ ai_reports \in StoredReports
    /\ saves = <<>>
    /\ pending = NoPending
    /\ fetch = NoFetch
    /\ faq = NoFaq
    /\ selection = NoSelection

\* the response of a handler: _ok(...) or _error(status, ...)
Answer(fn, status, response) ==
    /\ call' = [fn |-> fn, outcome |-> status, threshold |-> 0]
    /\ reply' = response

\* require_auth answers 401 and the handler is not called
Rejected(fn) ==
    /\ Answer(fn, "401", [NoReply EXCEPT !.text = "Missing, malformed or invalid API key"])
    /\ UNCHANGED <<plaid_items, user_budgets, ai_reports, saves>>

\* POST /exchange_token; db_ok is false when SQLite fails in save_token
ExchangeToken ==
    /\ \E authorization \in AuthHeaders, x_user_id \in UserIdHeaders :
        LET user_id == get_user_id(x_user_id)
            used    == [NoReply EXCEPT !.touched = {user_id}]
        IN  /\ request' = [NoRequest EXCEPT !.authorization = authorization, !.x_user_id = x_user_id]
            /\ IF ~require_auth_admits(API_KEY, authorization) THEN Rejected("exchange_token")
               ELSE \E public_token \in PublicTokens :
                   IF public_token = ""
                   THEN /\ Answer("exchange_token", "400", [NoReply EXCEPT !.text = "Missing or invalid public_token"])
                        /\ UNCHANGED plaid_items
                   ELSE IF SIMULATION_MODE \/ public_token = "fake-public-token"
                   THEN \E db_ok \in BOOLEAN :
                       IF db_ok
                       THEN /\ plaid_items' = save_token(plaid_items, user_id, FakeAccessToken, FakeItemId)
                            /\ Answer("exchange_token", "200", [used EXCEPT !.text = "Bank connected (simulation mode)"])
                       ELSE /\ Answer("exchange_token", "500", used)
                            /\ UNCHANGED plaid_items
                   ELSE \E plaid \in PlaidOutcomes :
                       IF plaid = "ok"
                       THEN \E access_token \in AccessTokens, db_ok \in BOOLEAN :
                           IF db_ok
                           THEN /\ plaid_items' = save_token(plaid_items, user_id, access_token, item_of(access_token))
                                /\ Answer("exchange_token", "200", [used EXCEPT !.text = "Bank connected successfully"])
                           ELSE /\ Answer("exchange_token", "500", used)
                                /\ UNCHANGED plaid_items
                       ELSE /\ Answer("exchange_token",
                                      IF plaid = "Exception" THEN "500" ELSE plaid_status(plaid), NoReply)
                            /\ UNCHANGED plaid_items
    /\ UNCHANGED <<transactions, stats, recurring, anomalies, user_budgets, ai_reports, saves,
                   insight, db, API_KEY, SIMULATION_MODE,
                   pending, fetch, faq, selection>>

\* POST /sandbox/init; plaid_ok is false when one of the two Plaid calls raises
SandboxInit ==
    /\ \E authorization \in AuthHeaders, x_user_id \in UserIdHeaders :
        LET user_id        == get_user_id(x_user_id)
            existing_token == load_token(plaid_items, user_id).access_token
            used           == [NoReply EXCEPT !.touched = {user_id}]
        IN  /\ request' = [NoRequest EXCEPT !.authorization = authorization, !.x_user_id = x_user_id]
            /\ IF ~require_auth_admits(API_KEY, authorization) THEN Rejected("sandbox_init")
               ELSE IF real_token(existing_token)
               THEN /\ Answer("sandbox_init", "200", [used EXCEPT !.text = "Already connected to sandbox"])
                    /\ UNCHANGED plaid_items
               ELSE \E plaid_ok \in BOOLEAN, db_ok \in BOOLEAN :
                   IF ~db_ok
                   THEN /\ Answer("sandbox_init", "500", used)
                        /\ UNCHANGED plaid_items
                   ELSE IF SIMULATION_MODE \/ ~plaid_ok
                   THEN /\ plaid_items' = save_token(plaid_items, user_id, FakeAccessToken, FakeItemId)
                        /\ Answer("sandbox_init", "200", [used EXCEPT !.text = "Using demo data"])
                   ELSE \E access_token \in AccessTokens :
                       /\ plaid_items' = save_token(plaid_items, user_id, access_token, item_of(access_token))
                       /\ Answer("sandbox_init", "200", [used EXCEPT !.text = "Sandbox bank connected automatically"])
    /\ UNCHANGED <<transactions, stats, recurring, anomalies, user_budgets, ai_reports, saves,
                   insight, db, API_KEY, SIMULATION_MODE,
                   pending, fetch, faq, selection>>

\* POST /simulate; valid is false when validate_int_param rejects days or
\* num_transactions
Simulate ==
    /\ \E authorization \in AuthHeaders, x_user_id \in UserIdHeaders :
        LET user_id == get_user_id(x_user_id)
            used    == [NoReply EXCEPT !.touched = {user_id}]
        IN  /\ request' = [NoRequest EXCEPT !.authorization = authorization, !.x_user_id = x_user_id]
            /\ IF ~require_auth_admits(API_KEY, authorization) THEN Rejected("simulate")
               ELSE \E valid \in BOOLEAN, db_ok \in BOOLEAN :
                   IF ~valid
                   THEN /\ Answer("simulate", "400", NoReply)
                        /\ UNCHANGED plaid_items
                   ELSE IF ~db_ok
                   THEN /\ Answer("simulate", "500", used)
                        /\ UNCHANGED plaid_items
                   ELSE /\ plaid_items' = save_token(plaid_items, user_id, FakeAccessToken, FakeItemId)
                        /\ Answer("simulate", "200", [used EXCEPT !.text = "Simulation data generated"])
    /\ UNCHANGED <<transactions, stats, recurring, anomalies, user_budgets, ai_reports, saves,
                   insight, db, API_KEY, SIMULATION_MODE,
                   pending, fetch, faq, selection>>

\* POST /reset
Reset ==
    /\ \E authorization \in AuthHeaders, x_user_id \in UserIdHeaders :
        LET user_id == get_user_id(x_user_id)
            used    == [NoReply EXCEPT !.touched = {user_id}]
        IN  /\ request' = [NoRequest EXCEPT !.authorization = authorization, !.x_user_id = x_user_id]
            /\ IF ~require_auth_admits(API_KEY, authorization) THEN Rejected("reset")
               ELSE \E db_ok \in BOOLEAN :
                   IF ~db_ok
                   THEN /\ Answer("reset", "500", used)
                        /\ UNCHANGED plaid_items
                   ELSE /\ plaid_items' = delete_token(plaid_items, user_id)
                        /\ Answer("reset", "200", [used EXCEPT !.text = "Bank disconnected"])
    /\ UNCHANGED <<transactions, stats, recurring, anomalies, user_budgets, ai_reports, saves,
                   insight, db, API_KEY, SIMULATION_MODE,
                   pending, fetch, faq, selection>>

\* GET /accounts: reply.token is the access token Plaid is queried with
GetAccounts ==
    /\ \E authorization \in AuthHeaders, x_user_id \in UserIdHeaders :
        LET user_id      == get_user_id(x_user_id)
            access_token == load_token(plaid_items, user_id).access_token
            used         == [NoReply EXCEPT !.touched = {user_id}]
        IN  /\ request' = [NoRequest EXCEPT !.authorization = authorization, !.x_user_id = x_user_id]
            /\ IF ~require_auth_admits(API_KEY, authorization) THEN Rejected("get_accounts")
               ELSE /\ IF SIMULATION_MODE \/ ~real_token(access_token)
                       THEN Answer("get_accounts", "200", [used EXCEPT !.text = "simulation_mode"])
                       ELSE \E plaid \in PlaidOutcomes :
                                Answer("get_accounts",
                                       IF plaid = "ok" THEN "200"
                                       ELSE IF plaid = "Exception" THEN "500" ELSE plaid_status(plaid),
                                       [used EXCEPT !.token = access_token])
                    /\ UNCHANGED <<plaid_items, user_budgets, ai_reports, saves>>
    /\ UNCHANGED <<transactions, stats, recurring, anomalies, insight, db, API_KEY, SIMULATION_MODE,
                   pending, fetch, faq, selection>>

MAX_CATEGORY_LEN == 100

\* sanitize_text(text, max_len) of a str without NUL characters
sanitize_text(text, max_len) == str_prefix(str_strip(text), max_len)

\* 'category' of the body of POST /budgets/set: <<>> stands for a missing or
\* non-str value
BodyCategories == {<<>>, <<" ">>, Food}

\* POST /budgets/set: monthly_limit in cents, the upper limit is 1,000,000.00
SetBudgetManual ==
    /\ Len(saves) < MaxSaves
    /\ \E authorization \in AuthHeaders, x_user_id \in UserIdHeaders :
        LET user_id == get_user_id(x_user_id)
            used    == [NoReply EXCEPT !.touched = {user_id}]
        IN  /\ request' = [NoRequest EXCEPT !.authorization = authorization, !.x_user_id = x_user_id]
            /\ IF ~require_auth_admits(API_KEY, authorization) THEN Rejected("set_budget_manual")
               ELSE \E body_category \in BodyCategories, limit \in Limits, db_ok \in BOOLEAN :
                   LET category == sanitize_text(body_category, MAX_CATEGORY_LEN)
                       row      == [user_id |-> user_id, category |-> category,
                                    monthly_limit |-> limit, set_by |-> "user"]
                   IN  IF body_category = <<>> \/ category = <<>> \/ limit < 0 \/ limit > 100000000
                       THEN /\ Answer("set_budget_manual", "400", NoReply)
                            /\ UNCHANGED <<plaid_items, user_budgets, ai_reports, saves>>
                       ELSE IF save_budget_rejects(limit, "user") \/ ~check_user_budgets(row) \/ ~db_ok
                       THEN /\ Answer("set_budget_manual", "500", used)
                            /\ UNCHANGED <<plaid_items, user_budgets, ai_reports, saves>>
                       ELSE /\ user_budgets' = upsert_budget(user_budgets, user_id, category, limit, "user")
                            /\ saves' = Append(saves, row)
                            /\ Answer("set_budget_manual", "200", used)
                            /\ UNCHANGED <<plaid_items, ai_reports>>
    /\ UNCHANGED <<transactions, stats, recurring, anomalies, insight, db, API_KEY, SIMULATION_MODE,
                   pending, fetch, faq, selection>>

\* GET /budgets
GetBudgets ==
    /\ \E authorization \in AuthHeaders, x_user_id \in UserIdHeaders :
        LET user_id == get_user_id(x_user_id)
        IN  /\ request' = [NoRequest EXCEPT !.authorization = authorization, !.x_user_id = x_user_id]
            /\ IF ~require_auth_admits(API_KEY, authorization) THEN Rejected("get_budgets")
               ELSE /\ Answer("get_budgets", "200",
                              [NoReply EXCEPT !.budgets = load_budgets(user_budgets, user_id),
                                              !.touched = {user_id}])
                    /\ UNCHANGED <<plaid_items, user_budgets, ai_reports, saves>>
    /\ UNCHANGED <<transactions, stats, recurring, anomalies, insight, db, API_KEY, SIMULATION_MODE,
                   pending, fetch, faq, selection>>

\* GET /history; valid is false when validate_int_param rejects limit
GetHistory ==
    /\ \E authorization \in AuthHeaders, x_user_id \in UserIdHeaders :
        LET user_id == get_user_id(x_user_id)
        IN  /\ request' = [NoRequest EXCEPT !.authorization = authorization, !.x_user_id = x_user_id]
            /\ IF ~require_auth_admits(API_KEY, authorization) THEN Rejected("get_history")
               ELSE /\ \E valid \in BOOLEAN :
                         IF ~valid
                         THEN Answer("get_history", "400", NoReply)
                         ELSE Answer("get_history", "200",
                                     [NoReply EXCEPT !.history = load_report_history(ai_reports, user_id, HistoryLimit),
                                                     !.touched = {user_id}])
                    /\ UNCHANGED <<plaid_items, user_budgets, ai_reports, saves>>
    /\ UNCHANGED <<transactions, stats, recurring, anomalies, insight, db, API_KEY, SIMULATION_MODE,
                   pending, fetch, faq, selection>>

NextTokens == ExchangeToken \/ SandboxInit \/ Simulate \/ Reset \/ GetAccounts

SpecTokens == InitTokens /\ [][NextTokens]_vars

NextGuarded == Reset \/ GetAccounts \/ SetBudgetManual \/ GetBudgets \/ GetHistory

SpecGuarded == InitGuarded /\ [][NextGuarded]_vars

(***************************************************************************)
(* POST /budgets/auto.  The handler reads the budgets once (load_budgets)  *)
(* and then commits one save_budget per recommended category; requests    *)
(* are served by concurrent threads, so other requests can be served       *)
(* between two of its steps.  pending is the request between its           *)
(* load_budgets and its response.                                          *)
(***************************************************************************)
\* what groq_budget_recommendations returns: {} or category -> limit, in dict order
Recommendations ==
    {<<>>, <<[category |-> Food, limit |-> 4000]>>,
     <<[category |-> Food, limit |-> 4000], [category |-> Travel, limit |-> 1000]>>}

\* what _resolve_transactions hands to /budgets/auto
AutoShapes ==
    {[amount |-> Num(1000), date |-> Str(Jan05), merchant_name |-> Str(Ab), name |-> AbsentStr,
      category |-> CatList(<<Food>>), pfc |-> PfcNone]}

\* existing.get(category, {}).get("set_by") == "user"
set_by_user(existing, category) == \E b \in existing : b.category = category /\ b.set_by = "user"

\* the service is started in simulation mode with an API key
InitAuto ==
    /\ transactions \in Batches(AutoShapes, MaxLenAuto)
    /\ InitCall
    /\ insight = NoInsight
    /\ db = NoDb
    /\ API_KEY = K1
    /\ SIMULATION_MODE = TRUE
    /\ plaid_items = {}
    /\ user_budgets \in StoredUserBudgets
    /\ ai_reports = <<>>
    /\ saves = <<>>
    /\ pending = NoPending
    /\ fetch = NoFetch
    /\ faq = NoFaq
    /\ selection = NoSelection

\* POST /budgets/auto up to and including existing = load_budgets(user_id); valid is
\* false when validate_int_param rejects days, resolved when _resolve_transactions
\* answers with an error response
AutoSetBudgets ==
    /\ pending = NoPending
    /\ \E authorization \in AuthHeaders, x_user_id \in UserIdHeaders :
        LET user_id == get_user_id(x_user_id)
            used    == [NoReply EXCEPT !.touched = {user_id}]
            headers == [NoRequest EXCEPT !.authorization = authorization, !.x_user_id = x_user_id]
        IN  /\ request' = headers
            /\ IF ~require_auth_admits(API_KEY, authorization)
               THEN /\ Rejected("auto_set_budgets")
                    /\ UNCHANGED pending
               ELSE /\ \E valid \in BOOLEAN, resolved \in BOOLEAN, overwrite_user \in BOOLEAN,
                          recommended \in Recommendations, up \in BOOLEAN, low \in BOOLEAN :
                         IF ~valid
                         THEN Answer("auto_set_budgets", "400", used) /\ UNCHANGED pending
                         ELSE IF ~resolved
                         THEN Answer("auto_set_budgets", "500", used) /\ UNCHANGED pending
                         ELSE IF calculate_stats(transactions, up, low).none
                         THEN /\ Answer("auto_set_budgets", "400", [used EXCEPT !.text = "No transaction data available"])
                              /\ UNCHANGED pending
                         ELSE IF recommended = <<>>
                         THEN /\ Answer("auto_set_budgets", "500", [used EXCEPT !.text = "AI could not generate budgets"])
                              /\ UNCHANGED pending
                         ELSE /\ Answer("auto_set_budgets", "pending", used)
                              /\ pending' = [user_id |-> user_id, overwrite_user |-> overwrite_user,
                                             existing |-> load_budgets(user_budgets, user_id),
                                             recommended |-> recommended, done |-> 0]
                    /\ UNCHANGED <<plaid_items, user_budgets, ai_reports, saves>>
    /\ UNCHANGED <<transactions, stats, recurring, anomalies, insight, db, API_KEY, SIMULATION_MODE,
                   fetch, faq, selection>>

\* one iteration of the loop 'for category, limit in recommended.items()', and the
\* response after the last one; db_ok is false when SQLite fails in save_budget
AutoSetBudgetsSave ==
    /\ pending # NoPending
    /\ Len(saves) < MaxSaves
    /\ LET item == pending.recommended[pending.done + 1]
           row  == [user_id |-> pending.user_id, category |-> item.category,
                    monthly_limit |-> item.limit, set_by |-> "ai"]
           last == pending.done + 1 = Len(pending.recommended)
           used == [NoReply EXCEPT !.touched = {pending.user_id}]
           step == /\ pending' = IF last THEN NoPending ELSE [pending EXCEPT !.done = pending.done + 1]
                   /\ IF last
                      THEN Answer("auto_set_budgets", "200", used)
                      ELSE UNCHANGED <<call, reply>>
       IN  IF set_by_user(pending.existing, item.category) /\ ~pending.overwrite_user
           THEN step /\ UNCHANGED <<user_budgets, saves>>
           ELSE \E db_ok \in BOOLEAN :
                   IF db_ok
                   THEN /\ user_budgets' = upsert_budget(user_budgets, pending.user_id, item.category,
                                                         item.limit, "ai")
                        /\ saves' = Append(saves, row)
                        /\ step
                   ELSE /\ Answer("auto_set_budgets", "500", used)
                        /\ pending' = NoPending
                        /\ UNCHANGED <<user_budgets, saves>>
    /\ UNCHANGED <<transactions, stats, recurring, anomalies, request, plaid_items, ai_reports,
                   insight, db, API_KEY, SIMULATION_MODE, fetch, faq, selection>>

NextAuto == AutoSetBudgets \/ AutoSetBudgetsSave \/ SetBudgetManual

SpecAuto == InitAuto /\ [][NextAuto]_vars

(***************************************************************************)
(* _fetch_all_transactions.  A record is named by its position in the      *)
(* result set of the upstream API; fetch.requests counts the calls of      *)
(* transactions_get and fetch.offset is the offset of the latest one.      *)
(***************************************************************************)
PageCap == 20

\* the n records a page requested at offset holds
UpstreamPage(offset, n) == [i \in 1..n |-> offset + i]

\* the loop without its cap
pagination_cap_off(pages) == FALSE

\* 'if pages > 20: break'
pagination_cap(pages) == pages > PageCap

InitFetch ==
    /\ transactions = <<>>
    /\ InitCall
    /\ InitStore
    /\ InitOutside

\* the first transactions_get (offset 0) and the assignments before the loop; the
\* call raises, or answers n records and total_transactions = total
FetchFirst ==
    /\ fetch.at = "idle"
    /\ \E raises \in BOOLEAN :
        IF raises
        THEN fetch' = [fetch EXCEPT !.at = "raised", !.requests = 1, !.offset = 0]
        ELSE \E n \in 0..MaxPage, total \in 0..MaxTotal :
                fetch' = [at |-> "loop", all_tx |-> UpstreamPage(0, n), total |-> total,
                          pages |-> 0, requests |-> 1, offset |-> 0]
    /\ UNCHANGED <<transactions, call, stats, recurring, anomalies, request, reply, user_budgets,
                   ai_reports, saves, insight, db, plaid_items, API_KEY, SIMULATION_MODE, pending,
                   faq, selection>>

\* the test of the while loop and one iteration of its body, or the return
FetchNext ==
    /\ fetch.at = "loop"
    /\ IF ~(Len(fetch.all_tx) < fetch.total)
       THEN fetch' = [fetch EXCEPT !.at = "returned"]
       ELSE IF pagination_cap(fetch.pages + 1)
       THEN fetch' = [fetch EXCEPT !.at = "returned", !.pages = fetch.pages + 1]
       ELSE \E raises \in BOOLEAN :
               IF raises
               THEN fetch' = [fetch EXCEPT !.at = "raised", !.pages = fetch.pages + 1,
                                           !.requests = fetch.requests + 1,
                                           !.offset = Len(fetch.all_tx)]
               ELSE \E n \in 0..MaxPage :
                       fetch' = [fetch EXCEPT !.at = IF n = 0 THEN "returned" ELSE "loop",
                                              !.pages = fetch.pages + 1,
                                              !.requests = fetch.requests + 1,
                                              !.offset = Len(fetch.all_tx),
                                              !.all_tx = fetch.all_tx \o UpstreamPage(Len(fetch.all_tx), n)]
    /\ UNCHANGED <<transactions, call, stats, recurring, anomalies, request, reply, user_budgets,
                   ai_reports, saves, insight, db, plaid_items, API_KEY, SIMULATION_MODE, pending,
                   faq, selection>>

NextFetch == FetchFirst \/ FetchNext

\* a call of transactions_get answers or raises, and the thread is scheduled
SpecFetch == InitFetch /\ [][NextFetch]_vars /\ WF_vars(NextFetch)

(***************************************************************************)
(* A call of select_answer                                                 *)
(***************************************************************************)
InitFaq ==
    /\ transactions = <<>>
    /\ InitCall
    /\ InitStore
    /\ insight = NoInsight
    /\ db = NoDb
    /\ plaid_items = {}
    /\ API_KEY = <<>>
    /\ SIMULATION_MODE = TRUE
    /\ pending = NoPending
    /\ fetch = NoFetch
    /\ selection = NoSelection
    /\ \E n \in 0..MaxLenFaq :
          faq \in {[user_question |-> u, questions |-> qs, answers |-> AnswersFor(n)] :
                       u \in UserQuestions, qs \in [1..n -> Questions]}

\* select_answer(user_question, questions, answers); sim is what cosine_similarity
\* computes for the questions handed to compute_similarity
SelectAnswer ==
    /\ LET kept == filtered_qs(detect_intent(faq.user_question), faq.questions, faq.answers)
       IN  \E sim \in [1..Len(kept) -> Scores] :
               IF select_answer_raises(faq.questions, faq.answers, sim)
               THEN /\ call' = [fn |-> "select_answer", outcome |-> "raise", threshold |-> 0]
                    /\ selection' = NoSelection
               ELSE /\ call' = [fn |-> "select_answer", outcome |-> "return", threshold |-> 0]
                    /\ selection' = select_answer(faq.user_question, faq.questions, faq.answers, sim)
    /\ UNCHANGED <<transactions, stats, recurring, anomalies, request, reply, user_budgets,
                   ai_reports, saves, insight, db, plaid_items, API_KEY, SIMULATION_MODE, pending,
                   fetch, faq>>

NextFaq == SelectAnswer

SpecFaq == InitFaq /\ [][NextFaq]_vars

(***************************************************************************)
(* Vocabulary of the properties.  It reads the batch directly, so that a   *)
(* property does not restate the definition it is checked against.         *)
(***************************************************************************)
Returned(fn) == call.fn = fn /\ call.outcome = "return"

N == Len(transactions)

\* the amount of transaction i is a number
Parses(i) == transactions[i].amount.k # "bad"

\* the amount of transaction i, in cents
AmountOf(i) == transactions[i].amount.n

\* the sum of the amounts of the transactions in S
SumOver(S) == SeqSum([i \in 1..N |-> IF i \in S THEN AmountOf(i) ELSE 0])

\* the category of a transaction by the priority of the data model: structured
\* primary category, then first element of the legacy list, then bare string,
\* then "Other"
NormalizedCategory(tx) ==
    CASE tx.personal_finance_category.k = "dict" /\ tx.personal_finance_category.primary # <<>>
            -> str_title(str_replace_underscore(tx.personal_finance_category.primary))
      [] OTHER -> CASE tx.category.k = "list" /\ tx.category.l # <<>> -> tx.category.l[1]
                    [] tx.category.k = "str" /\ tx.category.s # <<>>  -> tx.category.s
                    [] OTHER -> Other

\* the transactions with a positive amount in the category of transaction i
Peers(i) ==
    {j \in 1..N : /\ Parses(j) /\ AmountOf(j) > 0
                  /\ NormalizedCategory(transactions[j]) = NormalizedCategory(transactions[i])}

\* amount > threshold * mean of the positive amounts of its category
Anomalous(i, threshold) ==
    /\ Parses(i) /\ AmountOf(i) > 0
    /\ AmountOf(i) * 10 * Cardinality(Peers(i)) > threshold * SumOver(Peers(i))

\* the transactions grouped under key k
KeyGroup(k) == {i \in 1..N : merchant_key(transactions[i]) = k}

\* the grouping key a recurring record stands for
RecordKey(r) == str_strip(re_sub_trailing(str_lower(str_strip(r.merchant))))

\* the YYYY-MM buckets of the dates of the transactions in G
MonthBuckets(G) ==
    {str_prefix(date_str(transactions[i]), 7) : i \in {j \in G : Len(date_str(transactions[j])) >= 7}}

\* the members of G with a strictly positive amount
Positive(G) == {i \in G : Parses(i) /\ AmountOf(i) > 0}

\* every positive amount of G deviates from their mean by less than 5% of the mean
Within5Pct(G) ==
    \A i \in Positive(G) :
        20 * Abs(AmountOf(i) * Cardinality(Positive(G)) - SumOver(Positive(G))) < SumOver(Positive(G))

\* the batch with every unparsable amount counted as zero
Zeroed(txs) == [i \in 1..Len(txs) |-> IF float_raises(txs[i]) THEN [txs[i] EXCEPT !.amount = Num(0)] ELSE txs[i]]

\* the batch without its malformed records (unparsable amount, missing date)
WellFormedOnly(txs) == SelectSeq(txs, LAMBDA tx : ~float_raises(tx) /\ tx.date.k = "str")

(***************************************************************************)
(* C1-C10                                                                  *)
(***************************************************************************)
\* C1: detect_anomalies(transactions, threshold) returns exactly one record for each
\* transaction with amount > 0 whose amount is strictly greater than threshold times
\* the mean of the positive amounts of its normalized category, and no record for
\* any other transaction.
C1_OneRecordPerAnomalousTransaction ==
    call.fn = "detect_anomalies" =>
        /\ call.outcome = "return"
        /\ \A i \in 1..N :
              Cardinality({p \in 1..Len(anomalies) : anomalies[p].transaction_id = i})
                 = IF Anomalous(i, call.threshold) THEN 1 ELSE 0

\* the example of C1: Food amounts 100, 10 and 12 with threshold 2.0 give one
\* record, for the 100 transaction, with ratio 2.5
C1_Example ==
    /\ Returned("detect_anomalies") /\ call.threshold = 20 /\ N = 3
    /\ \A i \in 1..3 : NormalizedCategory(transactions[i]) = Food
    /\ AmountOf(1) = 10000 /\ AmountOf(2) = 1000 /\ AmountOf(3) = 1200
    /\ Len(anomalies) = 1 /\ anomalies[1].transaction_id = 1 /\ anomalies[1].ratio = 25

\* C2: every record returned by detect_recurring_transactions describes a merchant
\* key with at least 2 transactions whose dates fall in at least 2 distinct YYYY-MM
\* buckets (count >= 2, months_seen holds >= 2 distinct months in ascending order);
\* a merchant occurring once, or only within one calendar month, has no record.
C2_RecurringMeansTwoMonths ==
    Returned("detect_recurring_transactions") =>
        /\ \A p \in 1..Len(recurring) :
              LET r == recurring[p]
                  G == KeyGroup(RecordKey(r))
              IN  /\ r.count >= 2 /\ r.count = Cardinality(G)
                  /\ Len(r.months_seen) >= 2
                  /\ \A a \in 1..(Len(r.months_seen) - 1) : str_less(r.months_seen[a], r.months_seen[a + 1])
                  /\ {r.months_seen[a] : a \in 1..Len(r.months_seen)} = MonthBuckets(G)
        /\ \A i \in 1..N :
              LET G == KeyGroup(merchant_key(transactions[i]))
              IN  (Cardinality(G) < 2 \/ Cardinality(MonthBuckets(G)) < 2)
                     => \A p \in 1..Len(recurring) : RecordKey(recurring[p]) # merchant_key(transactions[i])

\* a merchant with a record next to a merchant seen twice, in one month only
C2_Witness ==
    /\ Returned("detect_recurring_transactions") /\ Len(recurring) = 1
    /\ \E i \in 1..N :
          LET G == KeyGroup(merchant_key(transactions[i]))
          IN  Cardinality(G) = 2 /\ Cardinality(MonthBuckets(G)) = 1

\* C3: for every non-empty batch calculate_stats puts each amount into exactly one
\* accumulator by its sign: total_spent is the sum of the positive amounts,
\* total_income the sum of the absolute values of the negative amounts, and
\* net_cash_flow is total_income - total_spent.
C3_SignClassification ==
    (Returned("calculate_stats") /\ N > 0) =>
        /\ ~stats.none
        /\ stats.total_spent = SumOver({i \in 1..N : Parses(i) /\ AmountOf(i) > 0})
        /\ stats.total_income = -SumOver({i \in 1..N : Parses(i) /\ AmountOf(i) < 0})
        /\ stats.net_cash_flow = stats.total_income - stats.total_spent

\* a batch with a charge, a refund and a zero amount
C3_Witness ==
    /\ Returned("calculate_stats")
    /\ \E i, j, k \in 1..N : AmountOf(i) > 0 /\ AmountOf(j) < 0 /\ AmountOf(k) = 0
    /\ stats.total_spent > 0 /\ stats.total_income > 0

\* C4: on an empty batch calculate_stats returns None without raising, and
\* detect_recurring_transactions and detect_anomalies return an empty sequence.
C4_EmptyBatch ==
    N = 0 =>
        /\ call.fn = "calculate_stats" => (call.outcome = "return" /\ stats.none)
        /\ call.fn = "detect_recurring_transactions" => (call.outcome = "return" /\ recurring = <<>>)
        /\ call.fn = "detect_anomalies" => (call.outcome = "return" /\ anomalies = <<>>)

\* calculate_stats has been called on the empty batch
C4_Witness == N = 0 /\ call.fn = "calculate_stats"

\* C5: detect_recurring_transactions and detect_anomalies never raise for a
\* malformed record: an unparsable amount counts as zero, an unusable date is left
\* out of the month set, and the other records are still processed and reported.
C5_DetectorsNeverRaise ==
    /\ call.fn = "detect_anomalies" =>
          /\ call.outcome = "return"
          /\ \E up \in BOOLEAN, low \in BOOLEAN : anomalies = detect_anomalies(Zeroed(transactions), call.threshold, up, low)
    /\ call.fn = "detect_recurring_transactions" =>
          /\ call.outcome = "return"
          /\ \E up \in BOOLEAN, low \in BOOLEAN : recurring = detect_recurring_transactions(Zeroed(transactions), up, low)

\* C6: calculate_stats does not abort on a malformed record (unparsable amount,
\* missing date): the record is left out of every total, sum and count, and the
\* statistics are those of the batch without it.
C6_MalformedLeftOut ==
    call.fn = "calculate_stats" =>
        /\ call.outcome = "return"
        /\ \E up \in BOOLEAN, low \in BOOLEAN : stats = calculate_stats(WellFormedOnly(transactions), up, low)

\* C7: for every recurring record, is_subscription is true iff the greatest absolute
\* deviation of the group's positive amounts from their mean, divided by the mean,
\* is strictly below 0.05; identical amounts give true, a deviation above 5% false.
C7_SubscriptionIffWithin5Pct ==
    Returned("detect_recurring_transactions") =>
        \A p \in 1..Len(recurring) :
            LET r == recurring[p]
                P == Positive(KeyGroup(RecordKey(r)))
            IN  /\ r.is_subscription <=> Within5Pct(KeyGroup(RecordKey(r)))
                /\ (\A i, j \in P : AmountOf(i) = AmountOf(j)) => r.is_subscription
                /\ (\E i \in P : 20 * Abs(AmountOf(i) * Cardinality(P) - SumOver(P)) > SumOver(P))
                      => ~r.is_subscription

\* C8: avg_amount is the mean (rounded to the cent) of the strictly positive amounts
\* of the group only, and a group without any positive amount has no record even if
\* it meets the count and month conditions.
C8_AverageOfPositiveAmounts ==
    Returned("detect_recurring_transactions") =>
        /\ \A p \in 1..Len(recurring) :
              LET P == Positive(KeyGroup(RecordKey(recurring[p])))
              IN  /\ P # {}
                  /\ 2 * Abs(recurring[p].avg_amount * Cardinality(P) - SumOver(P)) <= Cardinality(P)
        /\ \A i \in 1..N :
              Positive(KeyGroup(merchant_key(transactions[i]))) = {}
                 => \A p \in 1..Len(recurring) : RecordKey(recurring[p]) # merchant_key(transactions[i])

\* a record of a group that holds a refund next to its charges
C8_Witness ==
    /\ Returned("detect_recurring_transactions")
    /\ \E p \in 1..Len(recurring) :
          LET G == KeyGroup(RecordKey(recurring[p]))
          IN  (\E i \in G : AmountOf(i) < 0) /\ recurring[p].avg_amount * Cardinality(Positive(G)) = SumOver(Positive(G))

\* C9 as stated: the records are in descending order of the total signed amount of
\* their group (the sum of all its amounts, refunds included).
C9_OrderedBySignedTotal ==
    Returned("detect_recurring_transactions") =>
        \A p \in 1..(Len(recurring) - 1) :
            SumOver(KeyGroup(RecordKey(recurring[p]))) >= SumOver(KeyGroup(RecordKey(recurring[p + 1])))

\* C9 amended: the records are in descending order of their total field, which is
\* the sum of the group's strictly positive amounts (refunds left out).
C9_OrderedByPositiveTotal ==
    Returned("detect_recurring_transactions") =>
        /\ \A p \in 1..Len(recurring) :
              recurring[p].total = SumOver(Positive(KeyGroup(RecordKey(recurring[p]))))
        /\ \A p \in 1..(Len(recurring) - 1) : recurring[p].total >= recurring[p + 1].total

\* two records: the first has the greater total of charges and the smaller signed total
C9_Witness ==
    /\ Returned("detect_recurring_transactions") /\ Len(recurring) = 2
    /\ recurring[1].total > recurring[2].total
    /\ SumOver(KeyGroup(RecordKey(recurring[1]))) < SumOver(KeyGroup(RecordKey(recurring[2])))

\* C10: detect_anomalies never returns a record for a transaction with amount <= 0,
\* nor for a category whose members are all non-positive or whose mean is zero; a
\* batch that is a single refund of -50 yields an empty result.
C10_NoAnomalyWithoutSpending ==
    Returned("detect_anomalies") =>
        /\ \A p \in 1..Len(anomalies) :
              /\ anomalies[p].transaction_id \in 1..N
              /\ Parses(anomalies[p].transaction_id)
              /\ AmountOf(anomalies[p].transaction_id) > 0
        /\ \A i \in 1..N :
              (Peers(i) = {} \/ SumOver(Peers(i)) = 0)
                 => \A p \in 1..Len(anomalies) : anomalies[p].category # NormalizedCategory(transactions[i])
        /\ (N = 1 /\ AmountOf(1) = -5000) => anomalies = <<>>

\* detect_anomalies has returned for the batch that is one refund of -50 in Travel
C10_Witness ==
    /\ Returned("detect_anomalies")
    /\ N = 1 /\ AmountOf(1) = -5000 /\ NormalizedCategory(transactions[1]) = Travel

TrailingRun == Whitespace \cup Digits \cup {"#", "*"}

\* k is the name n (surrounding whitespace apart) in lower case without its
\* trailing run
IsKeyOf(k, n) ==
    LET l == str_lower(str_strip(n))
    IN  \E j \in 0..Len(l) :
            /\ \A q \in (j + 1)..Len(l) : l[q] \in TrailingRun
            /\ j = 0 \/ l[j] \notin TrailingRun
            /\ k = SubSeq(l, 1, j)

\* the merchant name of transaction i
NameOf(i) == merchant_or(transactions[i], <<>>)

\* the transactions whose name has the same key as the name n
SameKey(n) ==
    {i \in 1..N : \E j \in 0..Len(str_strip(n)) :
                      LET k == SubSeq(str_lower(str_strip(n)), 1, j)
                      IN  IsKeyOf(k, n) /\ IsKeyOf(k, NameOf(i))}

\* the name n has the empty key
EmptyKey(n) == IsKeyOf(<<>>, n)

\* C12: the recurring detector groups the transactions by the lower-cased merchant
\* name without its trailing run of whitespace, digits, '#' and '*': the names of one
\* key form one group (one record counts them all, "Amazon #4521" and "Amazon #9981"
\* under "amazon"), a transaction whose key is empty is in no group, and the key of
\* a key is that key.
C12_GroupedByNormalizedKey ==
    Returned("detect_recurring_transactions") =>
        /\ \A p \in 1..Len(recurring) :
              /\ ~EmptyKey(recurring[p].merchant)
              /\ recurring[p].count = Cardinality(SameKey(recurring[p].merchant))
        /\ \A i \in 1..N :
              LET G == SameKey(NameOf(i))
              IN  Cardinality({p \in 1..Len(recurring) : recurring[p].merchant = NameOf(CHOOSE g \in G : \A h \in G : g <= h)})
                     = IF /\ ~EmptyKey(NameOf(i)) /\ Cardinality(G) >= 2
                          /\ Cardinality(MonthBuckets(G)) >= 2 /\ Positive(G) # {}
                       THEN 1 ELSE 0
        /\ \A i \in 1..N :
              LET k == merchant_key(transactions[i])
              IN  /\ IsKeyOf(k, NameOf(i))
                  /\ merchant_key([transactions[i] EXCEPT !.merchant_name = Str(k)]) = k

\* "Amazon #4521" and "Amazon #9981" in two months at 19.99: one record of both,
\* a subscription of 19.99 on average
C12_Witness ==
    /\ Returned("detect_recurring_transactions")
    /\ \E i, j \in 1..N : NameOf(i) = Amazon4521 /\ NameOf(j) = Amazon9981
    /\ \E i \in 1..N : EmptyKey(NameOf(i))
    /\ Len(recurring) = 1 /\ recurring[1].count = 2
    /\ recurring[1].is_subscription /\ recurring[1].avg_amount = 1999

\* the least member of a non-empty set of positions
FirstOf(S) == CHOOSE i \in S : \A j \in S : i <= j

\* the counted transactions (those whose amount is a number) of category c
InCategory(c) == {i \in 1..N : Parses(i) /\ NormalizedCategory(transactions[i]) = c}

\* the categories of the counted transactions
CategoriesSeen == {NormalizedCategory(transactions[i]) : i \in {j \in 1..N : Parses(j)}}

\* the counted transactions of merchant m
VisitsTo(m) == {i \in 1..N : Parses(i) /\ merchant_or(transactions[i], Unknown) = m}

\* the merchants of the counted transactions
MerchantsSeen == {merchant_or(transactions[i], Unknown) : i \in {j \in 1..N : Parses(j)}}

\* merchant m ranks before merchant n: more visits, or as many and met earlier
RanksBefore(m, n) ==
    \/ Cardinality(VisitsTo(m)) > Cardinality(VisitsTo(n))
    \/ Cardinality(VisitsTo(m)) = Cardinality(VisitsTo(n)) /\ FirstOf(VisitsTo(m)) < FirstOf(VisitsTo(n))

\* the distinct dates of the counted transactions that carry one
DatesSeen == {date_str(transactions[i]) : i \in {j \in 1..N : Parses(j)}} \ {<<>>}

\* C13: calculate_stats resolves the category of each transaction by a fixed
\* priority: the structured primary category when present and non-empty, else the
\* first element of a non-empty legacy list, else the bare string, else "Other".
C13_CategoryPriority ==
    (Returned("calculate_stats") /\ N > 0) =>
        {stats.category_breakdown[p].category : p \in 1..Len(stats.category_breakdown)} = CategoriesSeen

\* a transaction that carries both a primary category and a legacy list, next to
\* one whose primary category is empty
C13_Witness ==
    /\ Returned("calculate_stats") /\ N = 2
    /\ \E i, j \in 1..N :
          /\ transactions[i].personal_finance_category = Pfc(FastFood)
          /\ transactions[i].category = CatList(<<Travel, Food>>)
          /\ transactions[j].personal_finance_category = Pfc(<<>>)
          /\ transactions[j].category = CatStr(Cd)
    /\ Len(stats.category_breakdown) = 2

\* C14: category_breakdown maps each category to the sum of the signed amounts of
\* its transactions, in descending order of that sum, categories of equal sum in
\* the order in which they are first met; top_category and top_category_amount are
\* its first entry.
C14_BreakdownBySignedSum ==
    (Returned("calculate_stats") /\ N > 0) =>
        LET bd == stats.category_breakdown
        IN  /\ Len(bd) = Cardinality(CategoriesSeen)
            /\ \A p \in 1..Len(bd) :
                  /\ bd[p].category \in CategoriesSeen
                  /\ bd[p].amount = SumOver(InCategory(bd[p].category))
            /\ \A p \in 1..(Len(bd) - 1) :
                  \/ bd[p].amount > bd[p + 1].amount
                  \/ /\ bd[p].amount = bd[p + 1].amount
                     /\ FirstOf(InCategory(bd[p].category)) < FirstOf(InCategory(bd[p + 1].category))
            /\ bd # <<>> => /\ stats.top_category = Str(bd[1].category)
                            /\ stats.top_category_amount = bd[1].amount

\* C15: top_merchants holds at most 5 entries, the merchants with the most visits in
\* descending order of visits, ties in the order in which the merchants are first
\* met, each with its number of visits and the sum of its signed amounts; no
\* merchant left out has more visits than one included.
C15_TopFiveByVisits ==
    (Returned("calculate_stats") /\ N > 0) =>
        LET tm     == stats.top_merchants
            listed == {tm[p].name : p \in 1..Len(tm)}
        IN  /\ Len(tm) <= 5
            /\ Len(tm) = IF Cardinality(MerchantsSeen) < 5 THEN Cardinality(MerchantsSeen) ELSE 5
            /\ Cardinality(listed) = Len(tm) /\ listed \subseteq MerchantsSeen
            /\ \A p \in 1..Len(tm) :
                  /\ tm[p].visits = Cardinality(VisitsTo(tm[p].name))
                  /\ tm[p].total = SumOver(VisitsTo(tm[p].name))
            /\ \A p \in 1..(Len(tm) - 1) : RanksBefore(tm[p].name, tm[p + 1].name)
            /\ \A m \in MerchantsSeen \ listed :
                  \A p \in 1..Len(tm) :
                      /\ RanksBefore(tm[p].name, m)
                      /\ tm[p].visits >= Cardinality(VisitsTo(m))

\* six merchants: the one met last, visited twice, comes first, and of the
\* merchants visited once the fifth is left out
C15_Witness ==
    /\ Returned("calculate_stats") /\ Cardinality(MerchantsSeen) = 6
    /\ Len(stats.top_merchants) = 5
    /\ stats.top_merchants[1].name = MerchantNames[6] /\ stats.top_merchants[1].visits = 2
    /\ stats.top_merchants[1].total = 0
    /\ \A p \in 1..5 : stats.top_merchants[p].name # MerchantNames[5]

\* C16: avg_daily_spend is the total spent divided by the number of distinct dates
\* with activity and avg_transaction the total spent divided by the transaction
\* count, each to the cent; a divisor of zero is taken as 1, and calculate_stats
\* never fails.
C16_AveragesWithGuardedDivisor ==
    call.fn = "calculate_stats" =>
        /\ call.outcome = "return"
        /\ N > 0 =>
              LET spent  == SumOver({i \in 1..N : Parses(i) /\ AmountOf(i) > 0})
                  n_days == IF DatesSeen = {} THEN 1 ELSE Cardinality(DatesSeen)
                  n_tx   == IF stats.transaction_count = 0 THEN 1 ELSE stats.transaction_count
              IN  /\ ~stats.none
                  /\ 2 * Abs(stats.avg_daily_spend * n_days - spent) <= n_days
                  /\ 2 * Abs(stats.avg_transaction * n_tx - spent) <= n_tx

\* money was spent in a batch none of whose transactions carries a date
C16_Witness ==
    /\ Returned("calculate_stats") /\ N >= 2 /\ DatesSeen = {}
    /\ stats.total_spent > 0 /\ stats.avg_daily_spend = stats.total_spent

\* the positions in the log of the saves of category c for user u
SavesOf(u, c) == {n \in 1..Len(saves) : saves[n].user_id = u /\ saves[n].category = c}

\* C19: after any sequence of save_budget calls, load_budgets returns exactly one
\* entry per category ever saved for the user, with the limit and set_by of the most
\* recent save of that category; every stored limit is >= 0 and every set_by is ai or
\* user.
C19_BudgetsAreLatestSaves ==
    /\ \A r \in user_budgets : r.monthly_limit >= 0 /\ r.set_by \in {"ai", "user"}
    /\ Returned("load_budgets") =>
          LET u == request.user_id
          IN  /\ \A c \in BudgetCategories :
                    Cardinality({e \in reply.budgets : e.category = c})
                       = IF SavesOf(u, c) = {} THEN 0 ELSE 1
              /\ \A e \in reply.budgets :
                    /\ e.category \in BudgetCategories
                    /\ SavesOf(u, e.category) # {}
                    /\ e.limit = saves[SetMax(SavesOf(u, e.category))].monthly_limit
                    /\ e.set_by = saves[SetMax(SavesOf(u, e.category))].set_by

\* a category saved twice for the user with different limits and set_by, and
\* load_budgets has returned the later save
C19_Witness ==
    /\ Returned("load_budgets") /\ Len(saves) = 2
    /\ saves[1].user_id = request.user_id /\ saves[2].user_id = request.user_id
    /\ saves[1].category = saves[2].category
    /\ saves[1].monthly_limit # saves[2].monthly_limit /\ saves[1].set_by # saves[2].set_by
    /\ Cardinality(reply.budgets) = 1

\* the entry of recent_transactions that transaction i gives rise to, with label c
RecentEntry(i, c) ==
    [name |-> merchant_or(transactions[i], Unknown), amount |-> AmountOf(i),
     date |-> date_str(transactions[i]), category |-> c]

\* C20: the four category resolvers agree: the label calculate_stats files a
\* transaction under, the category of the record detect_anomalies makes of it, the
\* category detect_recurring_transactions takes from the first transaction of a group
\* and the label _tx_category gives it in recent_transactions of /today are the same
\* label, whatever combination of structured field, legacy list, bare string or
\* absent category the transaction carries.
C20_ResolversAgree ==
    /\ (Returned("calculate_stats") /\ N > 0) =>
          \A c \in CategoriesSeen \cup {stats.category_breakdown[p].category : p \in 1..Len(stats.category_breakdown)} :
              Cardinality({p \in 1..Len(stats.category_breakdown) : stats.category_breakdown[p].category = c}) = 1
                 /\ c \in CategoriesSeen
    /\ Returned("detect_anomalies") =>
          \A p \in 1..Len(anomalies) :
              anomalies[p].category = NormalizedCategory(transactions[anomalies[p].transaction_id])
    /\ (Returned("detect_recurring_transactions") \/ Returned("today")) =>
          \A p \in 1..Len(recurring) :
              recurring[p].category
                 = NormalizedCategory(transactions[FirstOf(KeyGroup(RecordKey(recurring[p])))])
    /\ (Returned("today") /\ N <= RecentCount) =>
          \A c \in CategoriesSeen \cup {reply.recent[p].category : p \in 1..Len(reply.recent)} :
              \A i \in 1..N :
                  Cardinality({p \in 1..Len(reply.recent) : reply.recent[p] = RecentEntry(i, c)})
                     = Cardinality({j \in 1..N : /\ AmountOf(j) > 0
                                                  /\ RecentEntry(j, NormalizedCategory(transactions[j])) = RecentEntry(i, c)})

\* two transactions of one merchant in two months, the first with a structured
\* primary category next to a legacy list, the second with a bare string: /today
\* has listed both and found the recurring charge
C20_Witness ==
    /\ Returned("today") /\ N = 2 /\ Len(reply.recent) = 2 /\ Len(recurring) = 1
    /\ transactions[1].personal_finance_category = Pfc(FastFood)
    /\ transactions[1].category = CatList(<<Travel, Food>>)
    /\ transactions[2].personal_finance_category = PfcNone
    /\ transactions[2].category = CatStr(Cd)
    /\ reply.recent[1].category # reply.recent[2].category

\* the request that has just been served is a successful one of route fn
Served(fn) == call.fn = "none" /\ call'.fn = fn /\ call'.outcome = "return"

\* C18: each successful /report and each successful /alert appends exactly one record
\* to the report history, holding the narrative text of the response and the
\* statistics it was written from, and changes nothing else that is stored; a
\* request to /transactions, /recurring, /anomalies, /chat or /today, whatever its
\* outcome, leaves the report history and the budget store as they were.
C18_OnlyReportsArePersisted ==
    [][/\ \A fn \in {"report", "alert"} :
             Served(fn) =>
                /\ Len(ai_reports') = Len(ai_reports) + 1
                /\ SubSeq(ai_reports', 1, Len(ai_reports)) = ai_reports
                /\ ai_reports'[Len(ai_reports')].user_id = request'.user_id
                /\ ai_reports'[Len(ai_reports')].report_type = (IF fn = "report" THEN "full_report" ELSE "alert")
                /\ ai_reports'[Len(ai_reports')].report_text = reply'.text
                /\ json_loads(ai_reports'[Len(ai_reports')].stats_json) = stats'
                /\ ~stats'.none
                /\ user_budgets' = user_budgets
       /\ call'.fn \in {"transactions", "recurring", "anomalies", "chat", "today"} =>
             /\ ai_reports' = ai_reports
             /\ user_budgets' = user_budgets
       /\ transactions' = transactions]_vars

\* a second record has been appended to the history: an alert for a user who has a
\* budget, after a report
C18_Witness ==
    /\ Returned("alert") /\ Len(ai_reports) = 2
    /\ ai_reports[1].report_type = "full_report" /\ ai_reports[2].report_type = "alert"
    /\ user_budgets # {} /\ reply.budgets # {}
    /\ ai_reports[2].report_text = reply.text
    /\ Len(stats.category_breakdown) = 1

(***************************************************************************)
(* C21-C30                                                                 *)
(***************************************************************************)
\* the records detect_anomalies returned for the category of transaction i
FlaggedWith(i) ==
    {p \in 1..Len(anomalies) : anomalies[p].category = NormalizedCategory(transactions[i])}

\* C29: for a threshold t >= 1, detect_anomalies flags strictly fewer than n/t of the
\* n positive-amount transactions of a category: none when n = 1, and never all n.
C29_FewerThanNOverT ==
    Returned("detect_anomalies") =>
        \A i \in 1..N :
            LET n == Cardinality(Peers(i))
                k == Cardinality(FlaggedWith(i))
            IN  /\ n = 0 => k = 0
                /\ n > 0 => (k * call.threshold < n * 10 /\ k < n)
                /\ n = 1 => k = 0

\* C30: when every amount parses, the values of category_breakdown sum to
\* total_spent - total_income, the negation of net_cash_flow, which is the sum of all
\* the amounts; every transaction is counted under exactly one category.
C30_BreakdownSumsToNet ==
    (Returned("calculate_stats") /\ N > 0 /\ \A i \in 1..N : Parses(i)) =>
        LET bd    == stats.category_breakdown
            total == SeqSum([p \in 1..Len(bd) |-> bd[p].amount])
        IN  /\ total = stats.total_spent - stats.total_income
            /\ total = 0 - stats.net_cash_flow
            /\ total = SumOver(1..N)
            /\ \A i \in 1..N :
                  Cardinality({p \in 1..Len(bd) : bd[p].category = NormalizedCategory(transactions[i])}) = 1

\* charges and a refund spread over two categories
C30_Witness ==
    /\ Returned("calculate_stats") /\ N = 3
    /\ Len(stats.category_breakdown) = 2
    /\ stats.total_income > 0 /\ stats.total_spent > stats.total_income
    /\ \E p \in 1..2 : stats.category_breakdown[p].amount < 0

\* the transactions with an amount above zero
Debits == {i \in 1..N : AmountOf(i) > 0}

\* GET /transactions of backend.py answered with insights
Analyzed == call.fn = "backend.get_transactions" /\ call.outcome = "200"

\* C21: the total_spent of analyze_transactions is the sum of the positive amounts
\* of the batch, and a transaction whose category is a bare string or absent is
\* counted under the category the core's normalization gives it
C21_BackendFollowsSignConvention ==
    Analyzed =>
        /\ insight.total_spent = SumOver(Debits)
        /\ \A i \in 1..N :
              transactions[i].category.k \in {"str", "none"} =>
                  \E g \in 1..Len(insight.category_breakdown) :
                      insight.category_breakdown[g].category = NormalizedCategory(transactions[i])

\* C25: the status is 'connected' exactly when an access token is stored, and
\* /accounts and /transactions answer 'Bank not connected' whenever the status
\* they are served in is 'not_connected' or 'failed'
C25_ConnectedIffTokenStored ==
    /\ db.status = "connected" <=> db.access_token # None
    /\ (call.fn \in {"backend.get_accounts", "backend.get_transactions"} /\ db.status # "connected")
           => reply.text = "Bank not connected"

\* the requests that rewrite or remove a stored token by the claim: a successful
\* /exchange_token and /reset
Reconnects == {"exchange_token", "reset"}

\* C24: a stored access token that is neither absent nor the fake one stays in its
\* row, with its item id, through every request other than a successful
\* /exchange_token or a /reset
C24_RealTokenKept ==
    [][\A r \in plaid_items :
           (r.access_token \notin {None, FakeAccessToken}
               /\ ~(call'.fn \in Reconnects /\ call'.outcome = "200"))
           => r \in plaid_items']_vars

\* the header is 'Bearer <token>' and the token is the configured key
CarriesKey(authorization) ==
    /\ authorization.k = "str"
    /\ Len(authorization.s) >= 7
    /\ SubSeq(authorization.s, 1, 7) = <<"B", "e", "a", "r", "e", "r", " ">>
    /\ str_strip(SubSeq(authorization.s, 8, Len(authorization.s))) = API_KEY

\* the response of require_auth: 401, and nothing of the stores in it
Refused(response_call, response) ==
    /\ response_call.outcome = "401"
    /\ response.touched = {} /\ response.budgets = {} /\ response.history = <<>> /\ response.token = None

\* C26: with API_KEY configured, a request whose Authorization header is not
\* 'Bearer <API_KEY>' is answered 401 without reading or changing the tokens, the
\* budgets or the report history, and a request that carries the key reaches its
\* handler; with API_KEY empty every request reaches its handler
C26_OnlyKeyHoldersAdmitted ==
    [][IF API_KEY # <<>> /\ ~CarriesKey(request'.authorization)
       THEN /\ Refused(call', reply')
            /\ UNCHANGED <<plaid_items, user_budgets, ai_reports>>
       ELSE reply'.text # "Missing, malformed or invalid API key"]_vars

\* a request with another key was refused while a token, a budget and a report
\* were stored
C26_Witness ==
    /\ API_KEY = K1 /\ request.authorization = Str(Bearer \o K2) /\ call.outcome = "401"
    /\ plaid_items # {} /\ user_budgets # {} /\ ai_reports # <<>>

\* C27: two successive requests whose X-User-Id values differ touch no common row,
\* and a request touches only rows keyed by the value of its X-User-Id
C27_UsersIsolated ==
    [][/\ (call.fn # "none" /\ request.x_user_id.k = "str" /\ request'.x_user_id.k = "str"
              /\ request.x_user_id # request'.x_user_id)
           => reply.touched \cap reply'.touched = {}
       /\ request'.x_user_id.k = "str" => reply'.touched \subseteq {request'.x_user_id.s}]_vars

\* C22: while a /budgets/auto request without overwrite_user_budgets is being
\* served, no budget row with set_by = 'user' is replaced by a row with set_by = 'ai'
C22_UserBudgetsSurviveAuto ==
    [][\A r \in user_budgets :
           (r.set_by = "user" /\ pending # NoPending /\ ~pending.overwrite_user)
           => ~\E q \in user_budgets' :
                  q.user_id = r.user_id /\ q.category = r.category /\ q.set_by = "ai"]_vars

\* a request has been issued in the step
Requested == fetch'.requests = fetch.requests + 1

\* C28: _fetch_all_transactions ends (by return or exception) after at most 21
\* requests; it issues no request once the number of fetched records has reached
\* total_transactions, and none after an empty page; every request after the first
\* has the number of records fetched so far as offset, so that the records fetched
\* are the positions 1, 2, 3, ... in order
C28_FetchTerminates ==
    /\ [](fetch.requests <= 21 /\ \A i \in 1..Len(fetch.all_tx) : fetch.all_tx[i] = i)
    /\ [][/\ (fetch.at = "loop" /\ Len(fetch.all_tx) >= fetch.total)
              => (~Requested /\ fetch'.at = "returned")
          /\ (fetch.at = "loop" /\ Requested)
              => /\ fetch'.offset = Len(fetch.all_tx)
                 /\ fetch'.all_tx = fetch.all_tx => fetch'.at \in {"returned", "raised"}]_vars
    /\ <>(fetch.at \in {"returned", "raised"})

\* the loop was left by the cap: 21 requests and fewer records than total_transactions
C28_Witness ==
    fetch.at = "returned" /\ fetch.requests = 21 /\ Len(fetch.all_tx) < fetch.total

\* the positions of the stored questions that contain the intent, or all positions
\* when none does
Candidates ==
    LET hits == {i \in 1..Len(faq.questions) : str_contains(str_lower(faq.questions[i]), selection.intent)}
    IN  IF hits = {} THEN 1..Len(faq.questions) ELSE hits

\* the position, among the stored questions, of the question compute_similarity
\* judged most similar: the candidate with selection.idx candidates before it
Judged == CHOOSE i \in Candidates : Cardinality({j \in Candidates : j < i}) = selection.idx

\* C23: select_answer returns the answer stored at the position of the question it
\* judged most similar
C23_AnswerOfJudgedQuestion ==
    (call.fn = "select_answer" /\ call.outcome = "return") => selection.answer = faq.answers[Judged]

====
